---- MODULE Spec2Model ----
(***************************************************************************)
(* A model of the simulation core of CLIvilization: the GameState of       *)
(* src/engine/src/game/state.rs (turns, production queues, travels and     *)
(* battles, the popup state machine) and the headless API of               *)
(* src/engine/src/game/mod.rs.                                             *)
(*                                                                         *)
(* Conventions                                                             *)
(*   - Vec<T> is a sequence; indices of the code (0-based) are shifted by  *)
(*     one, so civilization i of the code is civilizations[i + 1].  The    *)
(*     variable player_turn keeps the code's 0-based value.                *)
(*   - Option<T> is <<>> (None) or <<v>> (Some(v)).                        *)
(*   - A String that names a template or a city is a TLA+ string; its      *)
(*     characters are given by Chars, so that trimming, lower-casing,      *)
(*     splitting and parsing act on characters as in the code.             *)
(*   - Result<()> is a string: "Ok" or the text of the error.              *)
(*   - An i32 is the integer it denotes.  A u32 is held as the i32 with    *)
(*     the same 32 bits: 0 .. 2^31 - 1 denote themselves and the values    *)
(*     from 2^31 up appear as negative numbers (4294967295 is -1).  The    *)
(*     casts `as i32` and `as u32` keep the bits, so they need no          *)
(*     operator; the unsigned order and the unsigned division are U32Le    *)
(*     and U32Half.  The model checker stops with an error on an           *)
(*     arithmetic overflow, so every run also shows that no addition,      *)
(*     subtraction or product of the code overflows on the inputs used.    *)
(***************************************************************************)
EXTENDS Integers, Sequences, FiniteSets, TLC

None == <<>>
Some(v) == <<v>>
IsSome(o) == o # <<>>
Unwrap(o) == o[1]

\* a <= b on u32: the values from 2^31 up (held as negative numbers) are
\* above the others
U32Le(a, b) == IF (a < 0) = (b < 0) THEN a <= b ELSE b < 0

\* u32::min
U32Min(a, b) == IF U32Le(a, b) THEN a ELSE b

\* a / 2 on u32
U32Half(a) == IF a >= 0 THEN a \div 2 ELSE ((a \div 2) + 2147483647) + 1

Range(s) == {s[i] : i \in DOMAIN s}

\* Vec::remove(i) with a 1-based position
RemoveAt(s, i) == SubSeq(s, 1, i - 1) \o SubSeq(s, i + 1, Len(s))

\* the first of a set of 1-based positions, 0 when the set is empty
\* (Iterator::find / Iterator::position over the positions that match)
FindFirst(hits) ==
    IF hits = {} THEN 0 ELSE CHOOSE i \in hits : \A j \in hits : i <= j

(***************************************************************************)
(* Text.  Names are atoms whose characters are given by Chars; the texts   *)
(* typed by a player or produced by an agent are character sequences.      *)
(***************************************************************************)
\* the characters of each name used by the configurations below
Chars(name) ==
    CASE name = "Farm" -> <<"F", "a", "r", "m">>
      [] name = "Barracks" -> <<"B", "a", "r", "r", "a", "c", "k", "s">>
      [] name = "Warrior" -> <<"W", "a", "r", "r", "i", "o", "r">>
      [] name = "Knight" -> <<"K", "n", "i", "g", "h", "t">>
      [] name = "Alpha" -> <<"A", "l", "p", "h", "a">>
      [] name = "Beta" -> <<"B", "e", "t", "a">>
      [] name = "Gamma" -> <<"G", "a", "m", "m", "a">>
      [] name = "Vault" -> <<"V", "a", "u", "l", "t">>
\* the lower-case letter of each upper-case ASCII letter
LowerOf ==
    [c \in {"A", "B", "C", "D", "E", "F", "G", "H", "I", "J", "K", "L", "M",
            "N", "O", "P", "Q", "R", "S", "T", "U", "V", "W", "X", "Y", "Z"} |->
        CASE c = "A" -> "a" [] c = "B" -> "b" [] c = "C" -> "c" [] c = "D" -> "d"
          [] c = "E" -> "e" [] c = "F" -> "f" [] c = "G" -> "g" [] c = "H" -> "h"
          [] c = "I" -> "i" [] c = "J" -> "j" [] c = "K" -> "k" [] c = "L" -> "l"
          [] c = "M" -> "m" [] c = "N" -> "n" [] c = "O" -> "o" [] c = "P" -> "p"
          [] c = "Q" -> "q" [] c = "R" -> "r" [] c = "S" -> "s" [] c = "T" -> "t"
          [] c = "U" -> "u" [] c = "V" -> "v" [] c = "W" -> "w" [] c = "X" -> "x"
          [] c = "Y" -> "y" [] c = "Z" -> "z"]

\* char::to_lowercase on the characters of the model: the ASCII letters
\* change, every other character is kept
LowerChar(c) == IF c \in DOMAIN LowerOf THEN LowerOf[c] ELSE c

\* str::to_lowercase
ToLower(cs) == [i \in DOMAIN cs |-> LowerChar(cs[i])]

\* char::is_whitespace on the characters of the model
IsSpace(c) == c \in {" ", "\n"}

\* str::trim: the text without its leading and trailing whitespace
Trim(cs) ==
    LET keep == {i \in DOMAIN cs : ~IsSpace(cs[i])}
    IN  IF keep = {} THEN <<>>
        ELSE LET lo == CHOOSE i \in keep : \A j \in keep : i <= j
                 hi == CHOOSE i \in keep : \A j \in keep : j <= i
             IN  SubSeq(cs, lo, hi)

\* str::split_whitespace: the maximal runs of non-whitespace characters
RECURSIVE SplitFrom(_, _, _, _)
SplitFrom(cs, i, cur, acc) ==
    IF i > Len(cs)
    THEN IF cur = <<>> THEN acc ELSE Append(acc, cur)
    ELSE IF IsSpace(cs[i])
         THEN SplitFrom(cs, i + 1, <<>>, IF cur = <<>> THEN acc ELSE Append(acc, cur))
         ELSE SplitFrom(cs, i + 1, Append(cur, cs[i]), acc)

SplitWhitespace(cs) == SplitFrom(cs, 1, <<>>, <<>>)

DigitValue(c) ==
    CASE c = "0" -> 0 [] c = "1" -> 1 [] c = "2" -> 2 [] c = "3" -> 3 [] c = "4" -> 4
      [] c = "5" -> 5 [] c = "6" -> 6 [] c = "7" -> 7 [] c = "8" -> 8 [] c = "9" -> 9
      [] OTHER -> -1

RECURSIVE DigitsValue(_, _, _)
DigitsValue(cs, i, acc) ==
    IF i > Len(cs) THEN acc ELSE DigitsValue(cs, i + 1, acc * 10 + DigitValue(cs[i]))

\* the longest digit string the model parses; every text of Texts and
\* PopupInputs is shorter, so the overflow error of the parser is not reached
MaxDigits == 6

\* str::parse::<u32>() and str::parse::<usize>(): an optional "+" followed by
\* at least one decimal digit; anything else is an error (None)
ParseUnsigned(cs) ==
    LET ds == IF Len(cs) >= 1 /\ cs[1] = "+" THEN SubSeq(cs, 2, Len(cs)) ELSE cs
    IN  IF ds = <<>> \/ Len(ds) > MaxDigits \/ \E i \in DOMAIN ds : DigitValue(ds[i]) < 0
        THEN None
        ELSE Some(DigitsValue(ds, 1, 0))

\* str::starts_with
StartsWith(cs, prefix) ==
    Len(prefix) <= Len(cs) /\ SubSeq(cs, 1, Len(prefix)) = prefix


(***************************************************************************)
(* The terrain grid and the weighted shortest path (GameState::bfs_path).  *)
(* A map is a record [width, height, tiles]; tiles[y + 1][x + 1] is the    *)
(* terrain of the cell (x, y) of the code.                                 *)
(***************************************************************************)
Terrain == {"Water", "Plains", "Desert", "Mountain"}

TileAt(m, x, y) == m.tiles[y + 1][x + 1]

InBounds(m, x, y) == x >= 0 /\ y >= 0 /\ x < m.width /\ y < m.height

\* const SCALE: one turn of travel in scaled integer cost units
SCALE == 1000

\* dist[..] = i64::MAX: the cost of a cell the search has not reached; it
\* stands for a value above every cost a path of the grid can have
DistMax == 2000000000

\* (SCALE as f64 / 3.0).round() as i64
RoundDiv3(n) == (2 * n + 3) \div 6

\* the step cost of a search that takes water for land
StepCostScaled_flat(terrain) == RoundDiv3(SCALE)

\* step_cost_scaled of entering a cell of the given terrain
StepCostScaled(terrain) ==
    IF terrain = "Water" THEN SCALE ELSE RoundDiv3(SCALE)

\* the order of the heap entries (cost, x, y): tuples compare field by field
HeapLess(a, b) ==
    \/ a[1] < b[1]
    \/ a[1] = b[1] /\ a[2] < b[2]
    \/ a[1] = b[1] /\ a[2] = b[2] /\ a[3] < b[3]

\* BinaryHeap<Reverse<..>>::pop: the smallest entry
HeapMin(heap) == CHOOSE a \in heap : \A b \in heap : a = b \/ HeapLess(a, b)

\* let neighbors = [(-1,0),(1,0),(0,-1),(0,1)]
Neighbors == << <<-1, 0>>, <<1, 0>>, <<0, -1>>, <<0, 1>> >>

\* the for loop over the neighbours of the popped cell (cx, cy): sr is the
\* search state [heap, dist, parent]
RECURSIVE Relax(_, _, _, _, _, _)
Relax(m, sr, cost, cx, cy, k) ==
    IF k > Len(Neighbors) THEN sr
    ELSE
      LET nx == cx + Neighbors[k][1]
          ny == cy + Neighbors[k][2]
      IN  IF ~InBounds(m, nx, ny) THEN Relax(m, sr, cost, cx, cy, k + 1)
          ELSE IF TileAt(m, nx, ny) = "Mountain" THEN Relax(m, sr, cost, cx, cy, k + 1)
          ELSE
            LET new_cost == cost + StepCostScaled(TileAt(m, nx, ny))
            IN  IF new_cost < sr.dist[<<nx, ny>>]
                THEN Relax(m,
                           [heap   |-> sr.heap \cup {<<new_cost, nx, ny>>},
                            dist   |-> [sr.dist EXCEPT ![<<nx, ny>>] = new_cost],
                            parent |-> [sr.parent EXCEPT ![<<nx, ny>>] = Some(<<cx, cy>>)]],
                           cost, cx, cy, k + 1)
                ELSE Relax(m, sr, cost, cx, cy, k + 1)

\* the reconstruction of the path from the parent links, destination first
RECURSIVE PathBack(_, _)
PathBack(parent, p) ==
    IF parent[p] = None THEN <<p>>
    ELSE <<p>> \o PathBack(parent, Unwrap(parent[p]))

Reverse(s) == [i \in DOMAIN s |-> s[Len(s) + 1 - i]]

\* the while loop of the search: pop the cheapest entry, skip it when stale,
\* stop at the destination, relax the neighbours otherwise
RECURSIVE Search(_, _, _)
Search(m, sr, dst) ==
    IF sr.heap = {} THEN None
    ELSE
      LET top  == HeapMin(sr.heap)
          rest == [sr EXCEPT !.heap = sr.heap \ {top}]
      IN  IF top[1] > sr.dist[<<top[2], top[3]>>] THEN Search(m, rest, dst)
          ELSE IF <<top[2], top[3]>> = dst
               THEN Some(Reverse(PathBack(sr.parent, dst)))
               ELSE Search(m, Relax(m, rest, top[1], top[2], top[3], 1), dst)

\* GameState::bfs_path: Some(path) from src to dst, None when there is none
bfs_path(m, src, dst) ==
    IF src[1] < 0 \/ src[2] < 0 \/ dst[1] < 0 \/ dst[2] < 0 THEN None
    ELSE IF src[1] >= m.width \/ src[2] >= m.height
            \/ dst[1] >= m.width \/ dst[2] >= m.height THEN None
    ELSE
      LET cells == (0..(m.width - 1)) \X (0..(m.height - 1))
      IN  Search(m,
                 [heap   |-> {<<0, src[1], src[2]>>},
                  dist   |-> [c \in cells |-> IF c = src THEN 0 ELSE DistMax],
                  parent |-> [c \in cells |-> None]],
                 dst)

(***************************************************************************)
(* The travel time of start_attack is accumulated in f64.  A value of the  *)
(* accumulator is the pair [n, e] standing for n/3 + e * 2^-54 / 3: the    *)
(* f64 nearest to 1/3 is [n |-> 1, e |-> -1], and 1.0 is [n |-> 3, e |-> 0]*)
(* Every addition is rounded to the nearest f64, ties to even.             *)
(***************************************************************************)
Pow2(k) == CASE k = 0 -> 1 [] k = 1 -> 2 [] k = 2 -> 4 [] k = 3 -> 8
             [] k = 4 -> 16 [] k = 5 -> 32 [] k = 6 -> 64

\* the binade of n/3 + e * 2^-54 / 3, as the exponent k of its unit in the
\* last place 2^(k - 54)
F64Binade(n, e) ==
    LET Reached(lo) == n > lo \/ (n = lo /\ e >= 0)
    IN  IF Reached(48) THEN 6 ELSE IF Reached(24) THEN 5 ELSE IF Reached(12) THEN 4
        ELSE IF Reached(6) THEN 3 ELSE IF Reached(3) THEN 2
        ELSE IF Reached(2) THEN 1 ELSE 0

\* the error term of the f64 nearest to n/3 + e * 2^-54 / 3
F64Round(n, e) ==
    IF n = 0 THEN e
    ELSE
      LET k    == F64Binade(n, e)
          M    == 3 * Pow2(k)
          c    == IF (54 - k) % 2 = 0 THEN 1 ELSE 2
          r    == (n * c) % 3
          x    == Pow2(k) * r + e
          rem  == x % M
          qpar == (r + (x - rem) \div M) % 2
      IN  IF 2 * rem < M THEN e - rem
          ELSE IF 2 * rem > M THEN e + (M - rem)
          ELSE IF qpar = 0 THEN e - rem ELSE e + (M - rem)

\* total_time += step_time, for 1.0 / land_speed and 1.0 / water_speed
F64AddStep(t, terrain) ==
    LET n == IF terrain = "Water" THEN t.n + 3 ELSE t.n + 1
        e == IF terrain = "Water" THEN t.e ELSE t.e - 1
    IN  [n |-> n, e |-> F64Round(n, e)]

\* total_time.ceil() as u32
F64Ceil(t) ==
    IF t.n % 3 = 0 THEN (t.n \div 3) + (IF t.e > 0 THEN 1 ELSE 0)
    ELSE (t.n \div 3) + 1

\* the loop over path[1..]: a mountain cell is skipped, any other cell adds
\* its step time
RECURSIVE TotalTime(_, _, _, _)
TotalTime(m, path, i, t) ==
    IF i > Len(path) THEN t
    ELSE LET terrain == TileAt(m, path[i][1], path[i][2])
         IN  IF terrain = "Mountain" THEN TotalTime(m, path, i + 1, t)
             ELSE TotalTime(m, path, i + 1, F64AddStep(t, terrain))

\* the number of turns of a travel along the path
TravelTurns(m, path) ==
    LET turns == F64Ceil(TotalTime(m, path, 2, [n |-> 0, e |-> 0]))
    IN  IF turns = 0 THEN 1 ELSE turns

(***************************************************************************)
(* The state: the fields of GameState that the simulation reads or writes, *)
(* and the outcome of the last call of the API.                            *)
(***************************************************************************)
VARIABLES
    map,            \* GameState::map
    buildings,      \* GameState::buildings, the building templates
    units,          \* GameState::units, the unit templates
    turn,           \* GameState::turn
    player_turn,    \* GameState::player_turn, 0-based
    civilizations,  \* GameState::civilizations
    popup,          \* GameState::popup, an Option<Popup>
    travels,        \* GameState::travels
    game_over,      \* GameState::game_over
    ui_state,       \* Game::ui_state
    last,           \* the last call of the API: its name and its results
    llm_ai          \* an LlmAi: its request channel, its worker, its call

vars == <<map, buildings, units, turn, player_turn, civilizations, popup,
          travels, game_over, ui_state, last, llm_ai>>

\* the part of GameState the operations change, as one record
Game == [turn |-> turn, player_turn |-> player_turn,
         civilizations |-> civilizations, popup |-> popup,
         travels |-> travels, game_over |-> game_over]

\* the text of a prompt: the fixed text of its format string, the words and
\* the numbers that the format inserts
Prompt(text, words, nums) == [text |-> text, words |-> words, nums |-> nums]

\* GameState::open_popup
open_popup(g, title, prompt, choices) ==
    [g EXCEPT !.popup = Some([title |-> title, prompt |-> prompt,
                              choices |-> choices, input |-> <<>>])]

\* GameState::close_popup
close_popup(g) == [g EXCEPT !.popup = None]

\* self.buildings.iter().find(|b| b.name == name): a position, 0 when none
FindBuilding(name) == FindFirst({i \in DOMAIN buildings : buildings[i].name = name})

\* self.units.iter().find(|u| u.name == name): a position, 0 when none
FindUnit(name) == FindFirst({i \in DOMAIN units : units[i].name = name})

\* start_construction with the slot check written with > for >=: one
\* building more than the capacity is accepted
start_construction_slot_gt(g, civ_index, building_name) ==
    LET bi  == FindBuilding(building_name)
        civ == g.civilizations[civ_index + 1]
        occupied == Len(civ.city.buildings) + Len(civ.constructions)
    IN  IF bi = 0
        THEN [g |-> g, result |-> "Unknown building"]
        ELSE IF civ.constructions # <<>>
        THEN [g |-> g, result |-> "Another construction is already in progress"]
        ELSE IF occupied > civ.city.nb_slots_buildings
        THEN [g |-> g, result |-> "No available building slots"]
        ELSE IF civ.resources < buildings[bi].cost
        THEN [g |-> g, result |-> "Not enough resources for building"]
        ELSE [g |-> [g EXCEPT
                       !.civilizations[civ_index + 1].resources = @ - buildings[bi].cost,
                       !.civilizations[civ_index + 1].constructions =
                           Append(@, [id_building |-> buildings[bi].name,
                                      remaining   |-> buildings[bi].build_time,
                                      total       |-> buildings[bi].build_time])],
              result |-> "Ok"]

\* start_construction without the check of a construction in progress
start_construction_no_queue_check(g, civ_index, building_name) ==
    LET bi  == FindBuilding(building_name)
        civ == g.civilizations[civ_index + 1]
        occupied == Len(civ.city.buildings) + Len(civ.constructions)
    IN  IF bi = 0
        THEN [g |-> g, result |-> "Unknown building"]
        ELSE IF occupied >= civ.city.nb_slots_buildings
        THEN [g |-> g, result |-> "No available building slots"]
        ELSE IF civ.resources < buildings[bi].cost
        THEN [g |-> g, result |-> "Not enough resources for building"]
        ELSE [g |-> [g EXCEPT
                       !.civilizations[civ_index + 1].resources = @ - buildings[bi].cost,
                       !.civilizations[civ_index + 1].constructions =
                           Append(@, [id_building |-> buildings[bi].name,
                                      remaining   |-> buildings[bi].build_time,
                                      total       |-> buildings[bi].build_time])],
              result |-> "Ok"]

\* GameState::start_construction: the new state and the Result
start_construction(g, civ_index, building_name) ==
    LET bi  == FindBuilding(building_name)
        civ == g.civilizations[civ_index + 1]
        occupied == Len(civ.city.buildings) + Len(civ.constructions)
    IN  IF bi = 0
        THEN [g |-> g, result |-> "Unknown building"]
        ELSE IF civ.constructions # <<>>
        THEN [g |-> g, result |-> "Another construction is already in progress"]
        ELSE IF occupied >= civ.city.nb_slots_buildings
        THEN [g |-> g, result |-> "No available building slots"]
        ELSE IF civ.resources < buildings[bi].cost
        THEN [g |-> g, result |-> "Not enough resources for building"]
        ELSE [g |-> [g EXCEPT
                       !.civilizations[civ_index + 1].resources = @ - buildings[bi].cost,
                       !.civilizations[civ_index + 1].constructions =
                           Append(@, [id_building |-> buildings[bi].name,
                                      remaining   |-> buildings[bi].build_time,
                                      total       |-> buildings[bi].build_time])],
              result |-> "Ok"]

\* the loop of start_recruitment over the built buildings: the position in
\* the templates of the first one that produces the unit, 0 when none
Producer(civ, unit_name) ==
    LET Produces(b_inst) ==
            LET bi == FindBuilding(b_inst.id_building)
            IN  /\ bi # 0
                /\ buildings[bi].production.prod_type = "UNIT"
                /\ buildings[bi].production.prod_unit_id = Some(unit_name)
        k == FindFirst({i \in DOMAIN civ.city.buildings : Produces(civ.city.buildings[i])})
    IN  IF k = 0 THEN 0 ELSE FindBuilding(civ.city.buildings[k].id_building)

\* start_recruitment with the slot check written with > for >=
start_recruitment_slot_gt(g, civ_index, unit_name) ==
    LET ui  == FindUnit(unit_name)
        civ == g.civilizations[civ_index + 1]
        bi  == Producer(civ, units[ui].name)
        occupied_units == Len(civ.city.units) + Len(civ.recruitments)
    IN  IF ui = 0
        THEN [g |-> g, result |-> "Unknown unit"]
        ELSE IF bi = 0
        THEN [g |-> g, result |-> "No building able to produce this unit is present"]
        ELSE IF civ.recruitments # <<>>
        THEN [g |-> g, result |-> "Another recruitment is already in progress"]
        ELSE IF occupied_units > civ.city.nb_slots_units
        THEN [g |-> g, result |-> "No available unit slots"]
        ELSE IF civ.resources < buildings[bi].production.cost
        THEN [g |-> g, result |-> "Not enough resources to recruit unit"]
        ELSE [g |-> [g EXCEPT
                       !.civilizations[civ_index + 1].resources =
                           @ - buildings[bi].production.cost,
                       !.civilizations[civ_index + 1].recruitments =
                           Append(@, [id_unit   |-> units[ui].name,
                                      remaining |-> buildings[bi].production.time,
                                      amount    |-> 1])],
              result |-> "Ok"]

\* GameState::start_recruitment: the new state and the Result
start_recruitment(g, civ_index, unit_name) ==
    LET ui  == FindUnit(unit_name)
        civ == g.civilizations[civ_index + 1]
        bi  == Producer(civ, units[ui].name)
        occupied_units == Len(civ.city.units) + Len(civ.recruitments)
    IN  IF ui = 0
        THEN [g |-> g, result |-> "Unknown unit"]
        ELSE IF bi = 0
        THEN [g |-> g, result |-> "No building able to produce this unit is present"]
        ELSE IF civ.recruitments # <<>>
        THEN [g |-> g, result |-> "Another recruitment is already in progress"]
        ELSE IF occupied_units >= civ.city.nb_slots_units
        THEN [g |-> g, result |-> "No available unit slots"]
        ELSE IF civ.resources < buildings[bi].production.cost
        THEN [g |-> g, result |-> "Not enough resources to recruit unit"]
        ELSE [g |-> [g EXCEPT
                       !.civilizations[civ_index + 1].resources =
                           @ - buildings[bi].production.cost,
                       !.civilizations[civ_index + 1].recruitments =
                           Append(@, [id_unit   |-> units[ui].name,
                                      remaining |-> buildings[bi].production.time,
                                      amount    |-> 1])],
              result |-> "Ok"]

\* GameState::remove_units_from_city on the unit stacks of one city: the
\* stacks that are left and the number of units removed
RECURSIVE RemoveLoop(_, _, _, _)
RemoveLoop(stacks, i, to_remove, removed) ==
    IF ~(i <= Len(stacks) /\ to_remove # 0)
    THEN [units |-> stacks, removed |-> removed]
    ELSE LET available == stacks[i].nb_units
         IN  IF U32Le(available, to_remove)
             THEN RemoveLoop(RemoveAt(stacks, i), i, to_remove - available,
                             removed + available)
             ELSE RemoveLoop([stacks EXCEPT ![i].nb_units = available - to_remove],
                             i + 1, 0, removed + to_remove)

\* remove_units_from_city reporting the units as removed and leaving the
\* stacks as they are
remove_units_from_city_kept(stacks, to_remove) ==
    [units |-> stacks, removed |-> RemoveLoop(stacks, 1, to_remove, 0).removed]

remove_units_from_city(stacks, to_remove) == RemoveLoop(stacks, 1, to_remove, 0)

\* the attack value of a unit id: .find(|u| &u.name == id).map_or(0, |u| u.attack)
AttackOf(id) == IF FindUnit(id) = 0 THEN 0 ELSE units[FindUnit(id)].attack

\* GameState::calculate_city_power on the unit stacks of one city
RECURSIVE PowerFrom(_, _)
PowerFrom(stacks, i) ==
    IF i > Len(stacks) THEN 0
    ELSE stacks[i].nb_units * AttackOf(stacks[i].id_units) + PowerFrom(stacks, i + 1)

calculate_city_power(g, civ_index) ==
    PowerFrom(g.civilizations[civ_index + 1].city.units, 1)

\* .iter().map(|u| u.nb_units).sum()
RECURSIVE TotalUnits(_)
TotalUnits(stacks) ==
    IF stacks = <<>> THEN 0 ELSE Head(stacks).nb_units + TotalUnits(Tail(stacks))

\* the positions, ascending, of the entries whose timer is zero after the
\* decrement (finished_builds, finished_recruits, arrived)
RECURSIVE ZeroPositions(_, _)
ZeroPositions(s, i) ==
    IF i > Len(s) THEN <<>>
    ELSE (IF s[i].remaining = 0 THEN <<i>> ELSE <<>>) \o ZeroPositions(s, i + 1)

\* a decrement that leaves every timer as it is
Tick_stalled(s) == s

\* if x.remaining > 0 { x.remaining -= 1 } on every entry of a queue
Tick(s) ==
    [i \in DOMAIN s |->
        IF s[i].remaining > 0 THEN [s[i] EXCEPT !.remaining = @ - 1] ELSE s[i]]

\* the resources granted by the built buildings of a civilization
RECURSIVE Income(_, _)
Income(insts, i) ==
    IF i > Len(insts) THEN 0
    ELSE LET bi == FindBuilding(insts[i].id_building)
         IN  (IF bi # 0 /\ buildings[bi].production.prod_type = "RESSOURCE"
              THEN buildings[bi].production.amount ELSE 0) + Income(insts, i + 1)

\* for idx in finished_builds.into_iter().rev(): k runs down finished
RECURSIVE FinalizeBuilds(_, _, _)
FinalizeBuilds(civ, finished, k) ==
    IF k = 0 THEN civ
    ELSE LET cons == civ.constructions[finished[k]]
         IN  FinalizeBuilds(
                 [civ EXCEPT !.constructions = RemoveAt(@, finished[k]),
                             !.city.buildings =
                                 Append(@, [id_building |-> cons.id_building, level |-> 1])],
                 finished, k - 1)

\* for idx in finished_recruits.into_iter().rev(): merge into the stack of
\* the same unit, or push a new stack
RECURSIVE FinalizeRecruits(_, _, _)
FinalizeRecruits(civ, finished, k) ==
    IF k = 0 THEN civ
    ELSE LET rec == civ.recruitments[finished[k]]
             si  == FindFirst({i \in DOMAIN civ.city.units : civ.city.units[i].id_units = rec.id_unit})
         IN  FinalizeRecruits(
                 [civ EXCEPT !.recruitments = RemoveAt(@, finished[k]),
                             !.city.units =
                                 IF si # 0
                                 THEN [@ EXCEPT ![si].nb_units = @ + rec.amount]
                                 ELSE Append(@, [id_units |-> rec.id_unit,
                                                 nb_units |-> rec.amount])],
                 finished, k - 1)

\* the production part of on_turn_start for one civilization
TurnStartProduction(civ) ==
    LET paid    == [civ EXCEPT !.resources = @ + Income(civ.city.buildings, 1)]
        built   == LET t == [paid EXCEPT !.constructions = Tick(@)]
                   IN  FinalizeBuilds(t, ZeroPositions(t.constructions, 1),
                                      Len(ZeroPositions(t.constructions, 1)))
        trained == LET t == [built EXCEPT !.recruitments = Tick(@)]
                   IN  FinalizeRecruits(t, ZeroPositions(t.recruitments, 1),
                                        Len(ZeroPositions(t.recruitments, 1)))
    IN  trained

\* the record of one resolution in last.battles: the travel, the alive flags
\* and the defender's stacks before it, the outcome, and the defender's alive
\* flag and stacks after it
Battle(t, g, outcome, defender_power, g2, lost) ==
    [travel |-> t, outcome |-> outcome, defender_power |-> defender_power,
     attacker_alive |-> g.civilizations[t.attacker + 1].alive,
     defender_alive |-> g.civilizations[t.defender + 1].alive,
     before |-> g.civilizations[t.defender + 1].city.units,
     after |-> g2.civilizations[t.defender + 1].city.units,
     alive_after |-> g2.civilizations[t.defender + 1].alive,
     lost |-> lost]

\* a resolution that fights every arrived travel, whatever the alive flags of
\* its two sides
ResolveTravel_always(st, t) ==
    LET g == st.g
        attacker == g.civilizations[t.attacker + 1]
        defender == g.civilizations[t.defender + 1]
        attacker_power == t.amount
        defender_power == calculate_city_power(g, t.defender)
    IN  IF attacker_power > defender_power
        THEN LET g2 == [g EXCEPT !.civilizations[t.defender + 1].alive = FALSE,
                                 !.civilizations[t.defender + 1].city.units = <<>>]
             IN  [g |-> open_popup(g2, "Battle",
                            Prompt("attacked, defender eliminated",
                                   <<Chars(attacker.city.name),
                                     Chars(defender.city.name)>>,
                                   <<attacker_power, defender_power>>),
                            <<>>),
                  battles |-> Append(st.battles,
                      Battle(t, g, "eliminated", defender_power, g2, 0))]
        ELSE
          LET casualties == U32Half(attacker_power)
              rm == remove_units_from_city(defender.city.units, casualties)
              g2 == [g EXCEPT !.civilizations[t.defender + 1].city.units = rm.units]
          IN  [g |-> open_popup(g2, "Battle",
                         Prompt("attacked, attack failed, defender lost units",
                                <<Chars(attacker.city.name),
                                  Chars(defender.city.name)>>,
                                <<attacker_power, defender_power, rm.removed>>),
                         <<>>),
               battles |-> Append(st.battles,
                   Battle(t, g, "held", defender_power, g2, rm.removed))]

\* a resolution that ignores an arrived travel only when its defender is no
\* longer alive
ResolveTravel_defender_only(st, t) ==
    LET g == st.g
        attacker == g.civilizations[t.attacker + 1]
        defender == g.civilizations[t.defender + 1]
    IN  IF ~defender.alive
        THEN [g |-> g, battles |-> Append(st.battles, Battle(t, g, "ignored", 0, g, 0))]
        ELSE
          LET attacker_power == t.amount
              defender_power == calculate_city_power(g, t.defender)
          IN  IF attacker_power > defender_power
              THEN LET g2 == [g EXCEPT !.civilizations[t.defender + 1].alive = FALSE,
                                       !.civilizations[t.defender + 1].city.units = <<>>]
                   IN  [g |-> open_popup(g2, "Battle",
                                  Prompt("attacked, defender eliminated",
                                         <<Chars(attacker.city.name),
                                           Chars(defender.city.name)>>,
                                         <<attacker_power, defender_power>>),
                                  <<>>),
                        battles |-> Append(st.battles,
                            Battle(t, g, "eliminated", defender_power, g2, 0))]
              ELSE
                LET casualties == U32Half(attacker_power)
                    rm == remove_units_from_city(defender.city.units, casualties)
                    g2 == [g EXCEPT !.civilizations[t.defender + 1].city.units = rm.units]
                IN  [g |-> open_popup(g2, "Battle",
                               Prompt("attacked, attack failed, defender lost units",
                                      <<Chars(attacker.city.name),
                                        Chars(defender.city.name)>>,
                                      <<attacker_power, defender_power, rm.removed>>),
                               <<>>),
                     battles |-> Append(st.battles,
                         Battle(t, g, "held", defender_power, g2, rm.removed))]

\* the resolution of one arrived travel t: st is [g, battles], where battles
\* is the record of the resolutions of this call, in the order they happen
ResolveTravel(st, t) ==
    LET g == st.g
        attacker == g.civilizations[t.attacker + 1]
        defender == g.civilizations[t.defender + 1]
    IN  IF ~attacker.alive \/ ~defender.alive
        THEN [g |-> g, battles |-> Append(st.battles, Battle(t, g, "ignored", 0, g, 0))]
        ELSE
          LET attacker_power == t.amount
              defender_power == calculate_city_power(g, t.defender)
          IN  IF attacker_power > defender_power
              THEN LET g2 == [g EXCEPT !.civilizations[t.defender + 1].alive = FALSE,
                                       !.civilizations[t.defender + 1].city.units = <<>>]
                   IN  [g |-> open_popup(g2, "Battle",
                                  Prompt("attacked, defender eliminated",
                                         <<Chars(attacker.city.name),
                                           Chars(defender.city.name)>>,
                                         <<attacker_power, defender_power>>),
                                  <<>>),
                        battles |-> Append(st.battles,
                            Battle(t, g, "eliminated", defender_power, g2, 0))]
              ELSE
                LET casualties == U32Half(attacker_power)
                    rm == remove_units_from_city(defender.city.units, casualties)
                    g2 == [g EXCEPT !.civilizations[t.defender + 1].city.units = rm.units]
                IN  [g |-> open_popup(g2, "Battle",
                               Prompt("attacked, attack failed, defender lost units",
                                      <<Chars(attacker.city.name),
                                        Chars(defender.city.name)>>,
                                      <<attacker_power, defender_power, rm.removed>>),
                               <<>>),
                     battles |-> Append(st.battles,
                         Battle(t, g, "held", defender_power, g2, rm.removed))]

\* for idx in arrived.into_iter().rev(): remove the travel, then resolve it
RECURSIVE ResolveArrived(_, _, _)
ResolveArrived(st, arrived, k) ==
    IF k = 0 THEN st
    ELSE LET t == st.g.travels[arrived[k]]
             removed == [st EXCEPT !.g.travels = RemoveAt(@, arrived[k])]
         IN  ResolveArrived(ResolveTravel(removed, t), arrived, k - 1)

\* the victory check writing the flag back to false when it finds it set
CheckVictory_toggle(g) ==
    LET alive_count == Cardinality({i \in DOMAIN g.civilizations : g.civilizations[i].alive})
    IN  IF alive_count <= 1 THEN [g EXCEPT !.game_over = ~g.game_over] ELSE g

\* the victory check that waits until no civilization is alive
CheckVictory_none_alive(g) ==
    LET alive_count == Cardinality({i \in DOMAIN g.civilizations : g.civilizations[i].alive})
    IN  IF alive_count < 1 /\ ~g.game_over
        THEN open_popup([g EXCEPT !.game_over = TRUE], "Game Over",
                        Prompt("No winners", <<>>, <<>>), <<>>)
        ELSE g

\* the victory check that ends on_turn_start
CheckVictory(g) ==
    LET alive_count == Cardinality({i \in DOMAIN g.civilizations : g.civilizations[i].alive})
        wi == FindFirst({i \in DOMAIN g.civilizations : g.civilizations[i].alive})
    IN  IF alive_count <= 1 /\ ~g.game_over
        THEN IF wi # 0
             THEN open_popup([g EXCEPT !.game_over = TRUE], "Game Over",
                             Prompt("Winner", <<Chars(g.civilizations[wi].city.name)>>, <<>>),
                             <<>>)
             ELSE open_popup([g EXCEPT !.game_over = TRUE], "Game Over",
                             Prompt("No winners", <<>>, <<>>), <<>>)
        ELSE g

\* a turn start that runs the production of every civilization
on_turn_start_all(g, player_index) ==
    LET produced == [g EXCEPT !.civilizations =
                        [i \in DOMAIN g.civilizations |->
                            TurnStartProduction(g.civilizations[i])]]
        ticked   == [produced EXCEPT !.travels = Tick(@)]
        arrived  == ZeroPositions(ticked.travels, 1)
        fought   == ResolveArrived([g |-> ticked, battles |-> <<>>], arrived, Len(arrived))
    IN  [g |-> CheckVictory(fought.g), battles |-> fought.battles]

\* GameState::on_turn_start: the new state and the battles it resolved
on_turn_start(g, player_index) ==
    LET produced == [g EXCEPT !.civilizations[player_index + 1] = TurnStartProduction(@)]
        ticked   == [produced EXCEPT !.travels = Tick(@)]
        arrived  == ZeroPositions(ticked.travels, 1)
        fought   == ResolveArrived([g |-> ticked, battles |-> <<>>], arrived, Len(arrived))
    IN  [g |-> CheckVictory(fought.g), battles |-> fought.battles]

\* start_attack without the check of attacker_idx == defender_idx
start_attack_self(g, attacker_idx, defender_idx, amount_opt) ==
    IF attacker_idx >= Len(g.civilizations) \/ defender_idx >= Len(g.civilizations)
    THEN [g |-> g, result |-> "Invalid civilization index"]
    ELSE IF g.game_over
    THEN [g |-> g, result |-> "Game is over"]
    ELSE IF ~g.civilizations[attacker_idx + 1].alive
    THEN [g |-> g, result |-> "Attacker is not alive"]
    ELSE IF ~g.civilizations[defender_idx + 1].alive
    THEN [g |-> g, result |-> "Target is already defeated"]
    ELSE
      LET a == g.civilizations[attacker_idx + 1].city
          b == g.civilizations[defender_idx + 1].city
          total_units == TotalUnits(a.units)
          send_amount == U32Min(IF IsSome(amount_opt) THEN Unwrap(amount_opt)
                                ELSE total_units,
                                total_units)
          rm == remove_units_from_city(a.units, send_amount)
          g1 == [g EXCEPT !.civilizations[attacker_idx + 1].city.units = rm.units]
          path_opt == bfs_path(map, <<a.x, a.y>>, <<b.x, b.y>>)
      IN  IF total_units = 0
          THEN [g |-> g, result |-> "No units available to send"]
          ELSE IF send_amount = 0
          THEN [g |-> g, result |-> "Invalid amount to send"]
          ELSE IF rm.removed = 0
          THEN [g |-> g1, result |-> "Failed to remove units"]
          ELSE IF path_opt = None
          THEN [g |-> g1, result |-> "No path to target (blocked by terrain)"]
          ELSE
            LET path  == Unwrap(path_opt)
                turns == TravelTurns(map, path)
            IN  [g |-> [g1 EXCEPT !.travels =
                           Append(@, [attacker |-> attacker_idx, defender |-> defender_idx,
                                      amount |-> rm.removed, remaining |-> turns,
                                      total |-> turns, path |-> path])],
                 result |-> "Ok"]

\* GameState::start_attack: the new state and the Result.  The units are
\* removed from the attacker before the path is computed, and an error
\* after that point returns with the state as it then is.
start_attack(g, attacker_idx, defender_idx, amount_opt) ==
    IF attacker_idx >= Len(g.civilizations) \/ defender_idx >= Len(g.civilizations)
    THEN [g |-> g, result |-> "Invalid civilization index"]
    ELSE IF attacker_idx = defender_idx
    THEN [g |-> g, result |-> "Cannot attack yourself"]
    ELSE IF g.game_over
    THEN [g |-> g, result |-> "Game is over"]
    ELSE IF ~g.civilizations[attacker_idx + 1].alive
    THEN [g |-> g, result |-> "Attacker is not alive"]
    ELSE IF ~g.civilizations[defender_idx + 1].alive
    THEN [g |-> g, result |-> "Target is already defeated"]
    ELSE
      LET a == g.civilizations[attacker_idx + 1].city
          b == g.civilizations[defender_idx + 1].city
          total_units == TotalUnits(a.units)
          send_amount == U32Min(IF IsSome(amount_opt) THEN Unwrap(amount_opt)
                                ELSE total_units,
                                total_units)
          rm == remove_units_from_city(a.units, send_amount)
          g1 == [g EXCEPT !.civilizations[attacker_idx + 1].city.units = rm.units]
          path_opt == bfs_path(map, <<a.x, a.y>>, <<b.x, b.y>>)
      IN  IF total_units = 0
          THEN [g |-> g, result |-> "No units available to send"]
          ELSE IF send_amount = 0
          THEN [g |-> g, result |-> "Invalid amount to send"]
          ELSE IF rm.removed = 0
          THEN [g |-> g1, result |-> "Failed to remove units"]
          ELSE IF path_opt = None
          THEN [g |-> g1, result |-> "No path to target (blocked by terrain)"]
          ELSE
            LET path  == Unwrap(path_opt)
                turns == TravelTurns(map, path)
            IN  [g |-> [g1 EXCEPT !.travels =
                           Append(@, [attacker |-> attacker_idx, defender |-> defender_idx,
                                      amount |-> rm.removed, remaining |-> turns,
                                      total |-> turns, path |-> path])],
                 result |-> "Ok"]

(***************************************************************************)
(* The action parser and the popup state machine.                          *)
(***************************************************************************)
\* one call of start_construction, start_recruitment or start_attack, as it
\* is recorded in last.calls
Call(fn, result) == [fn |-> fn, result |-> result]

\* the outcome of submit_action and submit_popup: the new state, the value
\* returned, the validated operation that was called (if any) and the
\* battles resolved by the turn start (if any)
Outcome(g, ret, calls, battles, ended) ==
    [g |-> g, ret |-> ret, calls |-> calls, battles |-> battles, ended |-> ended]

\* the words "end", "end turn", "build", "hire", "recruit" and "attack"
WordEnd == <<"e", "n", "d">>
WordEndTurn == <<"e", "n", "d", " ", "t", "u", "r", "n">>
WordBuild == <<"b", "u", "i", "l", "d">>
WordHire == <<"h", "i", "r", "e">>
WordRecruit == <<"r", "e", "c", "r", "u", "i", "t">>
WordAttack == <<"a", "t", "t", "a", "c", "k">>

\* the end-turn branch adding one to the turn counter at every end of turn
EndTurn_every_turn(g) ==
    LET next == (g.player_turn + 1) % Len(g.civilizations)
        g1 == [g EXCEPT !.player_turn = next, !.turn = @ + 1]
        ts == on_turn_start(g1, next)
    IN  Outcome(ts.g, FALSE, <<>>, ts.battles, TRUE)

\* the end-turn branch of submit_action
EndTurn(g) ==
    LET next == (g.player_turn + 1) % Len(g.civilizations)
        g1 == [g EXCEPT !.player_turn = next,
                        !.turn = IF next = 0 THEN @ + 1 ELSE @]
        ts == on_turn_start(g1, next)
    IN  Outcome(ts.g, FALSE, <<>>, ts.battles, TRUE)

\* the "build" branch of submit_action
SubmitBuild(g, parts) ==
    IF Len(parts) < 2
    THEN Outcome(open_popup(g, "Build", Prompt("Choose building type:", <<>>, <<>>),
                            [i \in DOMAIN buildings |-> buildings[i].name]),
                 TRUE, <<>>, <<>>, FALSE)
    ELSE
      LET bname == parts[2]
          bi == FindFirst({i \in DOMAIN buildings : ToLower(Chars(buildings[i].name)) = bname})
      IN  IF bi # 0
          THEN LET r == start_construction(g, g.player_turn, buildings[bi].name)
                   c == Call("start_construction", r.result)
               IN  IF r.result = "Ok"
                   THEN Outcome(r.g, FALSE, <<c>>, <<>>, FALSE)
                   ELSE Outcome(open_popup(r.g, "Build", Prompt(r.result, <<>>, <<>>), <<>>),
                                TRUE, <<c>>, <<>>, FALSE)
          ELSE Outcome(open_popup(g, "Build", Prompt("Unknown building: ", <<bname>>, <<>>),
                                  <<>>),
                       TRUE, <<>>, <<>>, FALSE)

\* the "hire" | "recruit" branch of submit_action
SubmitHire(g, parts) ==
    IF Len(parts) < 2
    THEN Outcome(open_popup(g, "Hire", Prompt("Choose unit to hire:", <<>>, <<>>),
                            [i \in DOMAIN units |-> units[i].name]),
                 TRUE, <<>>, <<>>, FALSE)
    ELSE
      LET uname == parts[2]
          ui == FindFirst({i \in DOMAIN units : ToLower(Chars(units[i].name)) = uname})
      IN  IF ui # 0
          THEN LET r == start_recruitment(g, g.player_turn, units[ui].name)
                   c == Call("start_recruitment", r.result)
               IN  IF r.result = "Ok"
                   THEN Outcome(r.g, FALSE, <<c>>, <<>>, FALSE)
                   ELSE Outcome(open_popup(r.g, "Hire", Prompt(r.result, <<>>, <<>>), <<>>),
                                TRUE, <<c>>, <<>>, FALSE)
          ELSE Outcome(open_popup(g, "Hire", Prompt("Unknown unit: ", <<uname>>, <<>>), <<>>),
                       TRUE, <<>>, <<>>, FALSE)

\* the names of all the civilizations, the active one included
RECURSIVE OtherNames_all(_, _, _)
OtherNames_all(civs, skip, i) ==
    IF i > Len(civs) THEN <<>>
    ELSE <<civs[i].city.name>> \o OtherNames_all(civs, skip, i + 1)

\* the names of the civilizations other than the active one, in order
RECURSIVE OtherNames(_, _, _)
OtherNames(civs, skip, i) ==
    IF i > Len(civs) THEN <<>>
    ELSE (IF i - 1 # skip THEN <<civs[i].city.name>> ELSE <<>>)
         \o OtherNames(civs, skip, i + 1)

\* the "attack" branch sending one unit when no amount is given
SubmitAttack_one_unit(g, parts) ==
    IF Len(parts) < 2
    THEN Outcome(open_popup(g, "Attack", Prompt("Choose player to attack:", <<>>, <<>>),
                            OtherNames(g.civilizations, g.player_turn, 1)),
                 TRUE, <<>>, <<>>, FALSE)
    ELSE
      LET target == parts[2]
          ci == FindFirst({i \in DOMAIN g.civilizations : ToLower(Chars(g.civilizations[i].city.name)) = target})
          amount == IF Len(parts) >= 3 THEN ParseUnsigned(parts[3]) ELSE Some(1)
      IN  IF ci # 0
          THEN LET r == start_attack(g, g.player_turn, ci - 1, amount)
                   c == Call("start_attack", r.result)
               IN  IF r.result = "Ok"
                   THEN Outcome(r.g, FALSE, <<c>>, <<>>, FALSE)
                   ELSE Outcome(open_popup(r.g, "Attack", Prompt(r.result, <<>>, <<>>), <<>>),
                                TRUE, <<c>>, <<>>, FALSE)
          ELSE Outcome(open_popup(g, "Attack", Prompt("Unknown target: ", <<target>>, <<>>),
                                  <<>>),
                       TRUE, <<>>, <<>>, FALSE)

\* the "attack" branch of submit_action
SubmitAttack(g, parts) ==
    IF Len(parts) < 2
    THEN Outcome(open_popup(g, "Attack", Prompt("Choose player to attack:", <<>>, <<>>),
                            OtherNames(g.civilizations, g.player_turn, 1)),
                 TRUE, <<>>, <<>>, FALSE)
    ELSE
      LET target == parts[2]
          ci == FindFirst({i \in DOMAIN g.civilizations : ToLower(Chars(g.civilizations[i].city.name)) = target})
          amount == IF Len(parts) >= 3 THEN ParseUnsigned(parts[3]) ELSE None
      IN  IF ci # 0
          THEN LET r == start_attack(g, g.player_turn, ci - 1, amount)
                   c == Call("start_attack", r.result)
               IN  IF r.result = "Ok"
                   THEN Outcome(r.g, FALSE, <<c>>, <<>>, FALSE)
                   ELSE Outcome(open_popup(r.g, "Attack", Prompt(r.result, <<>>, <<>>), <<>>),
                                TRUE, <<c>>, <<>>, FALSE)
          ELSE Outcome(open_popup(g, "Attack", Prompt("Unknown target: ", <<target>>, <<>>),
                                  <<>>),
                       TRUE, <<>>, <<>>, FALSE)

\* submit_action whose last branch returns without opening a popup
submit_action_silent(g, action_input) ==
    LET txt   == ToLower(Trim(action_input))
        parts == SplitWhitespace(txt)
    IN  IF txt = <<>> THEN Outcome(g, FALSE, <<>>, <<>>, FALSE)
        ELSE IF txt = WordEnd \/ txt = WordEndTurn THEN EndTurn(g)
        ELSE IF parts[1] = WordBuild THEN SubmitBuild(g, parts)
        ELSE IF parts[1] = WordHire \/ parts[1] = WordRecruit THEN SubmitHire(g, parts)
        ELSE IF parts[1] = WordAttack THEN SubmitAttack(g, parts)
        ELSE Outcome(g, FALSE, <<>>, <<>>, FALSE)

\* GameState::submit_action on the text action_input
submit_action(g, action_input) ==
    LET txt   == ToLower(Trim(action_input))
        parts == SplitWhitespace(txt)
    IN  IF txt = <<>> THEN Outcome(g, FALSE, <<>>, <<>>, FALSE)
        ELSE IF txt = WordEnd \/ txt = WordEndTurn THEN EndTurn(g)
        ELSE IF parts[1] = WordBuild THEN SubmitBuild(g, parts)
        ELSE IF parts[1] = WordHire \/ parts[1] = WordRecruit THEN SubmitHire(g, parts)
        ELSE IF parts[1] = WordAttack THEN SubmitAttack(g, parts)
        ELSE Outcome(open_popup(g, "Action", Prompt("Unknown action: ", <<txt>>, <<>>), <<>>),
                     TRUE, <<>>, <<>>, FALSE)

\* the choice of a popup falling back on the first choice when the input
\* selects none
Chosen_or_first(choices, input) ==
    LET sel == Trim(input)
        idx == ParseUnsigned(sel)
        pi  == FindFirst({i \in DOMAIN choices : StartsWith(ToLower(Chars(choices[i])), ToLower(sel))})
    IN  IF IsSome(idx) /\ Unwrap(idx) >= 1 /\ Unwrap(idx) <= Len(choices)
        THEN Some(choices[Unwrap(idx)])
        ELSE IF pi # 0 THEN Some(choices[pi]) ELSE Some(choices[1])

\* the choice of a popup with the prefix compared without lowering the case
Chosen_case_sensitive(choices, input) ==
    LET sel == Trim(input)
        idx == ParseUnsigned(sel)
        pi  == FindFirst({i \in DOMAIN choices : StartsWith(Chars(choices[i]), sel)})
    IN  IF IsSome(idx) /\ Unwrap(idx) >= 1 /\ Unwrap(idx) <= Len(choices)
        THEN Some(choices[Unwrap(idx)])
        ELSE IF pi # 0 THEN Some(choices[pi]) ELSE None

\* the choice that the input of a popup selects: a 1-based index first, the
\* first choice the input is a case-insensitive prefix of otherwise
Chosen(choices, input) ==
    LET sel == Trim(input)
        idx == ParseUnsigned(sel)
        pi  == FindFirst({i \in DOMAIN choices : StartsWith(ToLower(Chars(choices[i])), ToLower(sel))})
    IN  IF IsSome(idx) /\ Unwrap(idx) >= 1 /\ Unwrap(idx) <= Len(choices)
        THEN Some(choices[Unwrap(idx)])
        ELSE IF pi # 0 THEN Some(choices[pi]) ELSE None

\* what submit_popup made of the input, as it is recorded in last.chosen:
\* the popup had no choices, the input selected none of them, or the choice
Resolution(choices, input) ==
    IF choices = <<>> THEN <<"no choices">>
    ELSE IF IsSome(Chosen(choices, input)) THEN <<"chosen", Unwrap(Chosen(choices, input))>>
    ELSE <<"unresolved">>

\* GameState::submit_popup, for a popup that is open
submit_popup(g) ==
    LET p  == Unwrap(g.popup)
        ch == Chosen(p.choices, p.input)
        closed == close_popup(g)
    IN  IF p.choices # <<>> /\ IsSome(ch)
        THEN
          IF p.title = "Build" /\ FindBuilding(Unwrap(ch)) # 0
          THEN LET r == start_construction(g, g.player_turn, Unwrap(ch))
                   c == Call("start_construction", r.result)
               IN  IF r.result # "Ok"
                   THEN Outcome(open_popup(r.g, "Build", Prompt(r.result, <<>>, <<>>), <<>>),
                                TRUE, <<c>>, <<>>, FALSE)
                   ELSE Outcome(close_popup(r.g), TRUE, <<c>>, <<>>, FALSE)
          ELSE IF p.title = "Hire" /\ FindUnit(Unwrap(ch)) # 0
          THEN LET r == start_recruitment(g, g.player_turn, Unwrap(ch))
                   c == Call("start_recruitment", r.result)
               IN  IF r.result # "Ok"
                   THEN Outcome(open_popup(r.g, "Hire", Prompt(r.result, <<>>, <<>>), <<>>),
                                TRUE, <<c>>, <<>>, FALSE)
                   ELSE Outcome(close_popup(r.g), TRUE, <<c>>, <<>>, FALSE)
          ELSE IF p.title = "Attack"
                  /\ FindFirst({i \in DOMAIN g.civilizations : g.civilizations[i].city.name = Unwrap(ch)}) # 0
          THEN LET ci == FindFirst({i \in DOMAIN g.civilizations : g.civilizations[i].city.name = Unwrap(ch)})
                   r == start_attack(g, g.player_turn, ci - 1, None)
                   c == Call("start_attack", r.result)
               IN  IF r.result # "Ok"
                   THEN Outcome(open_popup(r.g, "Attack", Prompt(r.result, <<>>, <<>>), <<>>),
                                TRUE, <<c>>, <<>>, FALSE)
                   ELSE Outcome(close_popup(r.g), TRUE, <<c>>, <<>>, FALSE)
          ELSE Outcome(closed, TRUE, <<>>, <<>>, FALSE)
        ELSE Outcome(closed, TRUE, <<>>, <<>>, FALSE)

(***************************************************************************)
(* The configurations and the inputs of the model.                         *)
(***************************************************************************)
\* the texts submitted through apply_action
Texts ==
    { <<"e", "n", "d">>,
      <<"E", "n", "d", " ", "T", "u", "r", "n">>,
      <<"b", "u", "i", "l", "d">>,
      <<"b", "u", "i", "l", "d", " ", "f", "a", "r", "m">>,
      <<" ", "B", "u", "i", "l", "d", " ", " ", "B", "A", "R", "R", "A", "C", "K", "S", " ">>,
      <<"b", "u", "i", "l", "d", " ", "c", "a", "s", "t", "l", "e">>,
      <<"h", "i", "r", "e">>,
      <<"h", "i", "r", "e", " ", "w", "a", "r", "r", "i", "o", "r">>,
      <<"r", "e", "c", "r", "u", "i", "t", " ", "k", "n", "i", "g", "h", "t">>,
      <<"h", "i", "r", "e", " ", "d", "r", "a", "g", "o", "n">>,
      <<"a", "t", "t", "a", "c", "k">>,
      <<"a", "t", "t", "a", "c", "k", " ", "b", "e", "t", "a">>,
      <<"a", "t", "t", "a", "c", "k", " ", "a", "l", "p", "h", "a">>,
      <<"a", "t", "t", "a", "c", "k", " ", "b", "e", "t", "a", " ", "3">>,
      <<"a", "t", "t", "a", "c", "k", " ", "b", "e", "t", "a", " ", "0">>,
      <<"a", "t", "t", "a", "c", "k", " ", "g", "a", "m", "m", "a">>,
      <<"d", "a", "n", "c", "e">>,
      <<>> }

\* the texts submitted to an open popup
PopupInputs ==
    { <<>>,
      <<"1">>,
      <<"2">>,
      <<"b">>,
      <<"z", "z">> }

\* the inputs a popup with choices is resolved for: those submitted, and
\* "bar", "BAR", " 2 ", "3", "0", "+1", "f" and "farms"
ChoiceInputs ==
    PopupInputs \cup
    { <<"b", "a", "r">>,
      <<"B", "A", "R">>,
      <<" ", "2", " ">>,
      <<"3">>,
      <<"0">>,
      <<"+", "1">>,
      <<"f">>,
      <<"f", "a", "r", "m", "s">> }

\* the ends of turn the model plays: no operation is applied once that many
\* turns of a civilization have ended
MaxPlayed == 4

\* the turns of a civilization ended so far, from the turn counter (which
\* starts at 1) and the active player
Played == Len(civilizations) * (turn - 1) + player_turn

\* the amounts passed to a direct call of start_attack
Amounts == {None, Some(0), Some(3)}

\* the most travels in flight at a direct call of start_attack: an army of
\* 3000000000 could otherwise be sent three units at a time without end
MaxTravels == 2

\* the building templates (Section::BuildingDefArray of the configuration)
BuildingDefs ==
    << [name |-> "Farm", cost |-> 60, build_time |-> 1,
        production |-> [amount |-> 20, cost |-> 0, prod_type |-> "RESSOURCE",
                        prod_unit_id |-> None, time |-> 1]],
       [name |-> "Barracks", cost |-> 40, build_time |-> 2,
        production |-> [amount |-> 0, cost |-> 30, prod_type |-> "UNIT",
                        prod_unit_id |-> Some("Warrior"), time |-> 1]] >>

\* the unit templates (Section::UnitDefArray of the configuration)
UnitDefs ==
    << [name |-> "Warrior", attack |-> 1], [name |-> "Knight", attack |-> 4] >>

\* the templates of a configuration at the upper end of u32: a building whose
\* cost is 4294967295 (all 32 bits set)
VaultDefs ==
    << [name |-> "Vault", cost |-> -1, build_time |-> 1,
        production |-> [amount |-> 0, cost |-> 0, prod_type |-> "RESSOURCE",
                        prod_unit_id |-> None, time |-> 1]] >>

\* 3000000000 as a u32: 3000000000 - 2^32
Horde == -1294967296

\* a City of the configuration (Section::Cities)
City(name, x, y, bs, us, slots_b, slots_u, kind) ==
    [name |-> name, x |-> x, y |-> y,
     buildings |-> [i \in DOMAIN bs |-> [id_building |-> bs[i], level |-> 1]],
     units |-> us, nb_slots_buildings |-> slots_b, nb_slots_units |-> slots_u,
     player_type |-> kind]

Stack(id, nb) == [id_units |-> id, nb_units |-> nb]

\* open country: four land steps between the two cities
MapPlains ==
    [width |-> 4, height |-> 2,
     tiles |-> << <<"Plains", "Plains", "Desert", "Plains">>,
                  <<"Plains", "Plains", "Plains", "Plains">> >>]

\* a mountain range between the two cities: no path
MapWall ==
    [width |-> 3, height |-> 2,
     tiles |-> << <<"Plains", "Mountain", "Plains">>,
                  <<"Plains", "Mountain", "Plains">> >>]

\* two neighbouring cities: one land step between them
MapBorder ==
    [width |-> 2, height |-> 1, tiles |-> << <<"Plains", "Plains">> >>]

\* the configurations the model starts from: a map, the templates and the
\* cities.  The first is a war between two armies across open country; the
\* second is an economy behind a mountain range that no army can cross; the
\* third has values of the configuration above 2^31: the cost of its only
\* building and the size of one army.
Scenarios ==
    { [map |-> MapPlains, buildings |-> BuildingDefs, units |-> UnitDefs,
       cities |-> << City("Alpha", 0, 0, <<>>,
                          <<Stack("Warrior", 3), Stack("Knight", 1)>>, 0, 2, "PLAYER"),
                     City("Beta", 3, 1, <<>>, <<Stack("Warrior", 4)>>, 0, 1, "AI") >>],
      [map |-> MapWall, buildings |-> BuildingDefs, units |-> UnitDefs,
       cities |-> << City("Alpha", 0, 0, <<>>, <<Stack("Knight", 1)>>, 2, 1, "PLAYER"),
                     City("Beta", 2, 0, <<"Barracks">>, <<Stack("Knight", 1)>>, 1, 2,
                          "AI") >>],
      [map |-> MapBorder, buildings |-> VaultDefs, units |-> UnitDefs,
       cities |-> << City("Alpha", 0, 0, <<>>, <<Stack("Warrior", 4)>>, 1, 1, "PLAYER"),
                     City("Beta", 1, 0, <<>>, <<Stack("Warrior", Horde)>>, 1, 1,
                          "AI") >>] }

\* the templates of a configuration whose unit producer has a production
\* cost of 4294967295 (all 32 bits set)
MintDefs ==
    << [name |-> "Mint", cost |-> 10, build_time |-> 1,
        production |-> [amount |-> 0, cost |-> -1, prod_type |-> "UNIT",
                        prod_unit_id |-> Some("Warrior"), time |-> 1]] >>

\* the configuration of two neighbouring cities, one of which has the
\* building that produces warriors at a production cost above 2^31
MintScenarios ==
    { [map |-> MapBorder, buildings |-> MintDefs, units |-> UnitDefs,
       cities |-> << City("Alpha", 0, 0, <<"Mint">>, <<Stack("Warrior", 2)>>, 1, 2,
                          "PLAYER"),
                     City("Beta", 1, 0, <<>>, <<Stack("Knight", 1)>>, 1, 2, "AI") >>] }

\* the maps of the given width and height over the given terrains
Grids(w, h, terrains) ==
    {[width |-> w, height |-> h, tiles |-> tiles] :
        tiles \in [1..h -> [1..w -> terrains]]}

\* two cities, the first with one warrior at the cell (0, 0) and the second
\* without units at the cell (x, y)
RouteCities(x, y) ==
    << City("Alpha", 0, 0, <<>>, <<Stack("Warrior", 1)>>, 0, 1, "PLAYER"),
       City("Beta", x, y, <<>>, <<>>, 0, 1, "AI") >>

\* the configurations for the routes of the armies: every map of three by
\* two cells of water, plains and mountains with the cities in opposite
\* corners, every map of four by two cells of water and plains with the
\* cities at the ends of the first row, every corridor of six cells of water
\* and plains with the cities at its ends; and two cities on one cell
RouteScenarios ==
    {[map |-> m, buildings |-> BuildingDefs, units |-> UnitDefs,
      cities |-> RouteCities(2, 1)] : m \in Grids(3, 2, {"Water", "Plains", "Mountain"})}
    \cup {[map |-> m, buildings |-> BuildingDefs, units |-> UnitDefs,
           cities |-> RouteCities(3, 0)] : m \in Grids(4, 2, {"Water", "Plains"})}
    \cup {[map |-> m, buildings |-> BuildingDefs, units |-> UnitDefs,
           cities |-> RouteCities(5, 0)] : m \in Grids(6, 1, {"Water", "Plains"})}
    \cup {[map |-> MapBorder, buildings |-> BuildingDefs, units |-> UnitDefs,
           cities |-> RouteCities(0, 0)]}

\* the resources every civilization starts with (Game::from_string)
StartResources == 100

(***************************************************************************)
(* The agent bridge (ai.rs).  LlmAi hands each request of the game thread  *)
(* to a worker thread over a channel and waits for the answer on a channel *)
(* made for that request; the worker asks the decision service.            *)
(***************************************************************************)
\* str::find(pat): the 1-based position of the first match, 0 without one
Find(cs, pat) ==
    FindFirst({i \in 1..(Len(cs) - Len(pat) + 1) : SubSeq(cs, i, i + Len(pat) - 1) = pat})

\* str::rfind(pat): the 1-based position of the last match, 0 without one
RFind(cs, pat) ==
    LET hits == {i \in 1..(Len(cs) - Len(pat) + 1) : SubSeq(cs, i, i + Len(pat) - 1) = pat}
    IN  IF hits = {} THEN 0 ELSE CHOOSE i \in hits : \A j \in hits : j <= i

\* str::ends_with
EndsWith(cs, suffix) ==
    Len(suffix) <= Len(cs) /\ SubSeq(cs, Len(cs) - Len(suffix) + 1, Len(cs)) = suffix

\* the text from a 1-based position to the end: &s[i..]
From(cs, i) == SubSeq(cs, i, Len(cs))

\* the character U+0060, which a string of this language cannot hold
Backtick == "backtick"

\* the three characters that open and close a code block
Fence == <<Backtick, Backtick, Backtick>>
ActionKey == <<"\"", "a", "c", "t", "i", "o", "n", "\"">>

\* LlmAi::clean_llm_response: the text without its code fence, and the value
\* of the "action" field when what is left is a JSON object
clean_llm_response(response) ==
    LET trimmed == Trim(response)
        opened == IF StartsWith(trimmed, Fence) /\ Find(trimmed, <<"\n">>) # 0
                  THEN From(trimmed, Find(trimmed, <<"\n">>) + 1)
                  ELSE trimmed
        closed == IF StartsWith(trimmed, Fence) /\ RFind(opened, Fence) # 0
                  THEN SubSeq(opened, 1, RFind(opened, Fence) - 1)
                  ELSE opened
        cleaned == Trim(closed)
        action_start == Find(cleaned, ActionKey)
        after_action == From(cleaned, action_start + 8)
        colon_pos == Find(after_action, <<":">>)
        after_colon == From(after_action, colon_pos + 1)
        quote_start == Find(after_colon, <<"\"">>)
        after_quote == From(after_colon, quote_start + 1)
        quote_end == Find(after_quote, <<"\"">>)
    IN  IF /\ StartsWith(cleaned, <<"{">>) /\ EndsWith(cleaned, <<"}">>)
           /\ action_start # 0 /\ colon_pos # 0 /\ quote_start # 0 /\ quote_end # 0
        THEN Trim(SubSeq(after_quote, 1, quote_end - 1))
        ELSE cleaned

\* the contents the decision service answers with
Replies ==
    { WordEnd,
      <<>>,
      <<" ", "e", "n", "d", "\n">>,
      <<Backtick, Backtick, Backtick, "\n", "e", "n", "d", "\n", Backtick, Backtick, Backtick>>,
      <<Backtick, Backtick, Backtick, "e", "n", "d", Backtick, Backtick, Backtick>>,
      <<"{", "\"", "a", "c", "t", "i", "o", "n", "\"", ":", " ", "\"", "g", "o", "\"", "}">>,
      WordBuild,
      WordHire,
      WordAttack }

\* what the decision service does with a request: the request fails, the
\* completion has no choice, or its first choice has a content or none
Completions ==
    {[ok |-> FALSE, choices |-> <<>>], [ok |-> TRUE, choices |-> <<>>],
     [ok |-> TRUE, choices |-> <<[content |-> None]>>]}
    \cup {[ok |-> TRUE, choices |-> <<[content |-> Some(r)]>>] : r \in Replies}

\* AI::send_message: the trimmed content of the first choice, if there is one
send_message(completion) ==
    IF ~completion.ok THEN None
    ELSE IF Len(completion.choices) = 0 THEN None
    ELSE IF ~IsSome(completion.choices[1].content) THEN None
    ELSE Some(Trim(Unwrap(completion.choices[1].content)))

\* the two requests of LlmRequest
RequestKinds == {"SelectAction", "SelectPopupInput"}

\* the worker sending what send_message gave for an action request, without
\* a default
worker_out_raw(kind, res) ==
    IF kind = "SelectAction"
    THEN IF IsSome(res) THEN Some(clean_llm_response(Unwrap(res))) ELSE None
    ELSE IF IsSome(res) THEN Unwrap(res) ELSE <<>>

\* what the worker sends back for a request (LlmAi::new, the two arms)
worker_out(kind, res) ==
    IF kind = "SelectAction"
    THEN IF IsSome(res) THEN Some(clean_llm_response(Unwrap(res))) ELSE Some(WordEnd)
    ELSE IF IsSome(res) THEN Unwrap(res) ELSE <<>>

\* a caller that returns no action when it has no answer
caller_default_none(kind) == IF kind = "SelectAction" THEN None ELSE <<>>

\* what the caller returns when it has no answer: Some("end") from
\* select_action, String::new() from select_popup_input
caller_default(kind) == IF kind = "SelectAction" THEN Some(WordEnd) ELSE <<>>

\* the calls of the LlmAi the model follows
MaxCalls == 3

\* LlmAi::new: an empty request channel, the worker thread waiting on it, no
\* call in progress.  rx holds the requests sent and not yet received,
\* serving the request the worker is asking the service about, call the
\* request the game thread is waiting for, resp the message in the response
\* channel of that call, returned what the last call returned and why
\* (answer_to is the request the returned message answered, 0 without one),
\* started and done the requests the worker has taken and has answered, in
\* the order in which it did.
LlmAi_new ==
    [rx |-> <<>>, worker |-> "receiving", serving |-> None, call |-> None,
     resp |-> None, calls |-> 0, returned |-> None, started |-> <<>>,
     done |-> <<>>]

\* the requests whose response sender is still held: those in the channel and
\* the one being served
Pending(ai) ==
    {ai.rx[i].id : i \in DOMAIN ai.rx} \cup {ai.serving[i].id : i \in DOMAIN ai.serving}

\* the game state, which the bridge does not touch
GameUnchanged ==
    UNCHANGED <<map, buildings, units, turn, player_turn, civilizations, popup,
                travels, game_over, ui_state, last>>

\* LlmAi::select_action and LlmAi::select_popup_input up to recv_timeout, as
\* a function of the LlmAi: the request is sent, and the call returns its
\* default at once when the send fails because the worker has dropped the
\* receiver
Called(ai, kind) ==
    LET req == [id |-> ai.calls + 1, kind |-> kind]
    IN  IF ai.worker = "gone"
        THEN [ai EXCEPT !.calls = @ + 1,
                        !.returned = Some([id |-> req.id, kind |-> kind,
                                           value |-> caller_default(kind),
                                           by |-> "send_failed",
                                           answer_to |-> 0,
                                           completion |-> None])]
        ELSE [ai EXCEPT !.calls = @ + 1,
                        !.rx = Append(@, req),
                        !.call = Some(req),
                        !.resp = None]

\* a call of select_action or select_popup_input on the LlmAi
LlmAiCall(kind) ==
    /\ llm_ai.call = None
    /\ llm_ai.calls < MaxCalls
    /\ llm_ai' = Called(llm_ai, kind)
    /\ GameUnchanged

\* a worker that takes the newest request of the channel
WorkerRecv_newest ==
    /\ llm_ai.worker = "receiving"
    /\ llm_ai.rx # <<>>
    /\ llm_ai' = [llm_ai EXCEPT !.worker = "serving",
                                !.serving = Some(llm_ai.rx[Len(llm_ai.rx)]),
                                !.rx = SubSeq(@, 1, Len(@) - 1),
                                !.started = Append(@, llm_ai.rx[Len(llm_ai.rx)].id)]
    /\ GameUnchanged

\* the worker: rx.recv() takes the oldest request of the channel
WorkerRecv ==
    /\ llm_ai.worker = "receiving"
    /\ llm_ai.rx # <<>>
    /\ llm_ai' = [llm_ai EXCEPT !.worker = "serving", !.serving = Some(Head(llm_ai.rx)),
                                !.rx = Tail(@),
                                !.started = Append(@, Head(llm_ai.rx).id)]
    /\ GameUnchanged

\* a worker that answers on one response channel shared by all the calls:
\* its message reaches whichever call is waiting
WorkerRespond_shared(completion) ==
    /\ llm_ai.worker = "serving"
    /\ LET req == Unwrap(llm_ai.serving)
           out == worker_out(req.kind, send_message(completion))
           waited == IsSome(llm_ai.call)
       IN  llm_ai' = [llm_ai EXCEPT
                         !.worker = "receiving",
                         !.serving = None,
                         !.done = Append(@, req.id),
                         !.resp = IF waited
                                  THEN Some([id |-> req.id, value |-> out,
                                             completion |-> Some(completion)])
                                  ELSE @]
    /\ GameUnchanged

\* the worker: the service has answered, and the worker sends the result on
\* the response channel of the request; the send is lost when the caller has
\* dropped its receiver.  The message keeps the completion it was made from.
WorkerRespond(completion) ==
    /\ llm_ai.worker = "serving"
    /\ LET req == Unwrap(llm_ai.serving)
           out == worker_out(req.kind, send_message(completion))
           waited == IsSome(llm_ai.call) /\ Unwrap(llm_ai.call).id = req.id
       IN  llm_ai' = [llm_ai EXCEPT
                         !.worker = "receiving",
                         !.serving = None,
                         !.done = Append(@, req.id),
                         !.resp = IF waited
                                  THEN Some([id |-> req.id, value |-> out,
                                             completion |-> Some(completion)])
                                  ELSE @]
    /\ GameUnchanged

\* the worker thread ends by a panic (Runtime::new().expect, block_on): its
\* receiver and the requests it held are dropped with their response senders
WorkerExit ==
    /\ llm_ai.worker # "gone"
    /\ llm_ai' = [llm_ai EXCEPT !.worker = "gone", !.serving = None, !.rx = <<>>]
    /\ GameUnchanged

\* recv_timeout returns Ok: the call returns what the worker sent
RecvOk ==
    /\ IsSome(llm_ai.call)
    /\ IsSome(llm_ai.resp)
    /\ LET req == Unwrap(llm_ai.call)
           msg == Unwrap(llm_ai.resp)
       IN  llm_ai' = [llm_ai EXCEPT
                         !.call = None,
                         !.resp = None,
                         !.returned = Some([id |-> req.id, kind |-> req.kind,
                                            value |-> msg.value, by |-> "received",
                                            answer_to |-> msg.id,
                                            completion |-> msg.completion])]
    /\ GameUnchanged

\* recv_timeout returns Err(Disconnected): the response sender was dropped
\* without a message
RecvDisconnected ==
    /\ IsSome(llm_ai.call)
    /\ ~IsSome(llm_ai.resp)
    /\ Unwrap(llm_ai.call).id \notin Pending(llm_ai)
    /\ LET req == Unwrap(llm_ai.call)
       IN  llm_ai' = [llm_ai EXCEPT
                         !.call = None,
                         !.returned = Some([id |-> req.id, kind |-> req.kind,
                                            value |-> caller_default(req.kind),
                                            by |-> "disconnected",
                                            answer_to |-> 0,
                                            completion |-> None])]
    /\ GameUnchanged

\* a wait without a timeout (recv in place of recv_timeout): it never ends
\* for want of a message
RecvTimeout_never ==
    /\ FALSE
    /\ UNCHANGED vars

\* recv_timeout returns Err(Timeout): ten seconds have passed without a
\* message, the request being still in the channel or with the service
RecvTimeout ==
    /\ IsSome(llm_ai.call)
    /\ ~IsSome(llm_ai.resp)
    /\ Unwrap(llm_ai.call).id \in Pending(llm_ai)
    /\ LET req == Unwrap(llm_ai.call)
       IN  llm_ai' = [llm_ai EXCEPT
                         !.call = None,
                         !.returned = Some([id |-> req.id, kind |-> req.kind,
                                            value |-> caller_default(req.kind),
                                            by |-> "timeout",
                                            answer_to |-> 0,
                                            completion |-> None])]
    /\ GameUnchanged

\* the call in progress returns
Recv == RecvOk \/ RecvDisconnected \/ RecvTimeout

\* the call recorded before any operation
NoCall == [op |-> "init", ret |-> FALSE, calls |-> <<>>,
           battles |-> <<>>, ended |-> FALSE, chosen |-> <<>>]

\* Game::from_string: the state built from one of the configurations
InitFrom(scenarios) ==
    \E sc \in scenarios :
        /\ map = sc.map
        /\ buildings = sc.buildings
        /\ units = sc.units
        /\ turn = 1
        /\ player_turn = 0
        /\ civilizations = [i \in DOMAIN sc.cities |->
                               [resources |-> StartResources, city |-> sc.cities[i],
                                alive |-> TRUE, constructions |-> <<>>,
                                recruitments |-> <<>>]]
        /\ popup = None
        /\ travels = <<>>
        /\ game_over = FALSE
        /\ ui_state = "Normal"
        /\ last = NoCall
        /\ llm_ai = LlmAi_new

\* the game starts from one of the three configurations
Init == InitFrom(Scenarios)

\* the assignment of the record of an outcome to the variables of the game
SetGame(g) ==
    /\ turn' = g.turn
    /\ player_turn' = g.player_turn
    /\ civilizations' = g.civilizations
    /\ popup' = g.popup
    /\ travels' = g.travels
    /\ game_over' = g.game_over
    /\ UNCHANGED <<map, buildings, units>>

\* the assignment of the record of an outcome by an operation of the game,
\* which leaves the agent bridge alone
Set(g) ==
    /\ SetGame(g)
    /\ UNCHANGED llm_ai

\* Game::apply_action(action)
ApplyAction(action) ==
    /\ Played < MaxPlayed
    /\ \E o \in {submit_action(Game, action)} :
           /\ Set(o.g)
           /\ ui_state' = IF o.ret THEN "PopupOpen" ELSE "Normal"
           /\ last' = [op |-> "apply_action", ret |-> o.ret,
                       calls |-> o.calls, battles |-> o.battles, ended |-> o.ended,
                       chosen |-> <<>>]

\* submit_popup_input returning true whether or not a popup is open
SubmitPopupInput_always_true(input) ==
    /\ Played < MaxPlayed
    /\ IF popup = None
       THEN /\ UNCHANGED <<map, buildings, units, turn, player_turn, civilizations,
                           popup, travels, game_over, ui_state, llm_ai>>
            /\ last' = [op |-> "submit_popup_input", ret |-> TRUE,
                        calls |-> <<>>, battles |-> <<>>, ended |-> FALSE,
                        chosen |-> <<>>]
       ELSE \E o \in {submit_popup([Game EXCEPT !.popup[1].input = input])} :
                /\ Set(o.g)
                /\ ui_state' = "Normal"
                /\ last' = [op |-> "submit_popup_input", ret |-> TRUE,
                            calls |-> o.calls, battles |-> <<>>, ended |-> FALSE,
                            chosen |-> Resolution(Unwrap(popup).choices, input)]

\* Game::submit_popup_input(input)
SubmitPopupInput(input) ==
    /\ Played < MaxPlayed
    /\ IF popup = None
       THEN /\ UNCHANGED <<map, buildings, units, turn, player_turn, civilizations,
                           popup, travels, game_over, ui_state, llm_ai>>
            /\ last' = [op |-> "submit_popup_input", ret |-> FALSE,
                        calls |-> <<>>, battles |-> <<>>, ended |-> FALSE,
                        chosen |-> <<>>]
       ELSE \E o \in {submit_popup([Game EXCEPT !.popup[1].input = input])} :
                /\ Set(o.g)
                /\ ui_state' = "Normal"
                /\ last' = [op |-> "submit_popup_input", ret |-> TRUE,
                            calls |-> o.calls, battles |-> <<>>, ended |-> FALSE,
                            chosen |-> Resolution(Unwrap(popup).choices, input)]

\* Game::step(): the active player and the turn counter move on; nothing
\* else is called
step(g) ==
    LET next == (g.player_turn + 1) % Len(g.civilizations)
    IN  [g EXCEPT !.player_turn = next,
                  !.turn = IF next = 0 THEN @ + 1 ELSE @]

\* a call of Game::step()
Step ==
    /\ Played < MaxPlayed
    /\ Set(step(Game))
    /\ last' = [op |-> "step", ret |-> FALSE, calls |-> <<>>,
                battles |-> <<>>, ended |-> FALSE, chosen |-> <<>>]
    /\ UNCHANGED ui_state

\* Ai::select_popup_input, the default method of the trait: the first choice
\* if there is one, the input buffer of the popup otherwise
select_popup_input(p) == IF p.choices = <<>> THEN p.input ELSE <<"1">>

\* one iteration of the loop of Game::run_ai_for_current_player for an
\* agent-controlled active civilization: the agent returns no action and the
\* loop calls step(), or it returns a command that is applied, followed by
\* the agent's answer to the popup if one is open
RunAiIteration(action_opt) ==
    /\ Played < MaxPlayed
    /\ civilizations[player_turn + 1].city.player_type = "AI"
    /\ IF action_opt = None
       THEN /\ Set(step(Game))
            /\ last' = [op |-> "run_ai", ret |-> FALSE, calls |-> <<>>,
                        battles |-> <<>>, ended |-> FALSE, chosen |-> <<>>]
            /\ UNCHANGED ui_state
       ELSE \E o \in {submit_action(Game, Unwrap(action_opt))} :
                IF o.ret /\ IsSome(o.g.popup)
                THEN \E input \in {select_popup_input(Unwrap(o.g.popup))} :
                     \E o2 \in {submit_popup([o.g EXCEPT !.popup[1].input = input])} :
                        /\ Set(o2.g)
                        /\ ui_state' = "Normal"
                        /\ last' = [op |-> "run_ai", ret |-> TRUE,
                                    calls |-> o.calls \o o2.calls,
                                    battles |-> o.battles, ended |-> o.ended,
                                    chosen |-> Resolution(Unwrap(o.g.popup).choices, input)]
                ELSE /\ Set(o.g)
                     /\ ui_state' = "Normal"
                     /\ last' = [op |-> "run_ai", ret |-> FALSE, calls |-> o.calls,
                                 battles |-> o.battles, ended |-> o.ended,
                                 chosen |-> <<>>]

\* a direct call of GameState::start_attack with any indices and amount
StartAttackCall(attacker_idx, defender_idx, amount_opt) ==
    /\ Played < MaxPlayed
    /\ Len(travels) < MaxTravels
    /\ \E r \in {start_attack(Game, attacker_idx, defender_idx, amount_opt)} :
           /\ Set(r.g)
           /\ last' = [op |-> "start_attack", ret |-> FALSE,
                       calls |-> <<Call("start_attack", r.result)>>,
                       battles |-> <<>>, ended |-> FALSE, chosen |-> <<>>]
    /\ UNCHANGED ui_state

\* a direct call of GameState::start_construction for any civilization
StartConstructionCall(civ_index, name) ==
    /\ Played < MaxPlayed
    /\ \E r \in {start_construction(Game, civ_index, name)} :
           /\ Set(r.g)
           /\ last' = [op |-> "start_construction", ret |-> FALSE,
                       calls |-> <<Call("start_construction", r.result)>>,
                       battles |-> <<>>, ended |-> FALSE, chosen |-> <<>>]
    /\ UNCHANGED ui_state

\* a direct call of GameState::start_recruitment for any civilization
StartRecruitmentCall(civ_index, name) ==
    /\ Played < MaxPlayed
    /\ \E r \in {start_recruitment(Game, civ_index, name)} :
           /\ Set(r.g)
           /\ last' = [op |-> "start_recruitment", ret |-> FALSE,
                       calls |-> <<Call("start_recruitment", r.result)>>,
                       battles |-> <<>>, ended |-> FALSE, chosen |-> <<>>]
    /\ UNCHANGED ui_state

\* const MAX_ACTIONS: the cap on the iterations of the agent loop
MAX_ACTIONS == 256

\* self.ais[civ_idx].is_some(): main registers an agent for exactly the
\* civilizations whose city is marked AI
ais(g, civ_idx) == g.civilizations[civ_idx + 1].city.player_type = "AI"

\* the body of the loop of run_ai_for_current_player for the answer of the
\* agent: st is [g, ui, actions_done, left, none_seen, asked_after_none],
\* where left tells that the loop has been left, none_seen that an agent has
\* answered with no action and asked_after_none that an agent was asked for
\* an action after that.  The value is the set of the one state after the
\* body.
ai_iteration(st, action_opt) ==
    LET asked == [st EXCEPT !.actions_done = @ + 1,
                            !.none_seen = @ \/ action_opt = None,
                            !.asked_after_none = @ \/ st.none_seen]
    IN  IF action_opt = None
        THEN {[asked EXCEPT !.g = step(st.g)]}
        ELSE UNION {
               IF o.ret /\ IsSome(o.g.popup)
               THEN {[asked EXCEPT
                        !.g = submit_popup(
                                 [o.g EXCEPT !.popup[1].input =
                                     select_popup_input(Unwrap(o.g.popup))]).g,
                        !.ui = "Normal"]}
               ELSE {[asked EXCEPT !.g = o.g,
                                   !.ui = IF o.ret THEN "PopupOpen" ELSE "Normal"]} :
               o \in {submit_action(st.g, Unwrap(action_opt))}}

\* one pass of the loop without the cap on the iterations
ai_pass_uncapped(st, script) ==
    IF st.left THEN {st}
    ELSE IF ~ais(st.g, st.g.player_turn) THEN {[st EXCEPT !.left = TRUE]}
    ELSE {[next EXCEPT !.left = ~ais(next.g, next.g.player_turn)] :
             next \in ai_iteration(st, script[(st.actions_done % Len(script)) + 1])}

\* one pass of the loop with an agent that answers its k-th request, counted
\* from 0, with the entry k mod Len(script) of the script: the breaks at the
\* top (the cap, no agent for the active civilization), the body, and the
\* break at the bottom (no agent for the civilization that is now active)
ai_pass(st, script) ==
    IF st.left THEN {st}
    ELSE IF st.actions_done >= MAX_ACTIONS THEN {[st EXCEPT !.left = TRUE]}
    ELSE IF ~ais(st.g, st.g.player_turn) THEN {[st EXCEPT !.left = TRUE]}
    ELSE {[next EXCEPT !.left = ~ais(next.g, next.g.player_turn)] :
             next \in ai_iteration(st, script[(st.actions_done % Len(script)) + 1])}

\* n passes of the loop, as the passes of the first half followed by those
\* of the second half
RECURSIVE ai_passes(_, _, _)
ai_passes(st, script, n) ==
    IF st.left \/ n = 0 THEN {st}
    ELSE IF n = 1 THEN ai_pass(st, script)
    ELSE UNION {ai_passes(mid, script, n - (n \div 2)) :
                   mid \in ai_passes(st, script, n \div 2)}

\* the passes of the loop that the model follows: twice the cap
MaxPasses == 2 * MAX_ACTIONS

\* Game::run_ai_for_current_player() with an agent that follows the script:
\* the state after the loop, or after MaxPasses passes of it
RunAiForCurrentPlayer(script) ==
    /\ Played < MaxPlayed
    /\ \E r \in ai_passes([g |-> Game, ui |-> ui_state, actions_done |-> 0,
                           left |-> FALSE, none_seen |-> FALSE,
                           asked_after_none |-> FALSE],
                          script, MaxPasses) :
           /\ Set(r.g)
           /\ ui_state' = r.ui
           /\ last' = [op |-> "run_ai_for_current_player", ret |-> FALSE,
                       calls |-> <<>>, battles |-> <<>>, ended |-> FALSE,
                       chosen |-> <<>>, actions_done |-> r.actions_done,
                       left |-> r.left, none_seen |-> r.none_seen,
                       asked_after_none |-> r.asked_after_none]

(***************************************************************************)
(* The agent loop over the bridge: the iterations of                       *)
(* run_ai_for_current_player with the LlmAi as the agent of the active     *)
(* civilization.  The game thread is held from the call to its return, so  *)
(* the game changes only when a call has returned.                         *)
(***************************************************************************)
\* mod.rs:561-564: the loop asks the agent of the active civilization for an
\* action.  The model leaves room for the popup request that may follow.
AgentSelectAction ==
    /\ Played < MaxPlayed
    /\ ais(Game, player_turn)
    /\ ~IsSome(llm_ai.call)
    /\ ~IsSome(llm_ai.returned)
    /\ llm_ai.calls + 2 <= MaxCalls
    /\ llm_ai' = Called(llm_ai, "SelectAction")
    /\ GameUnchanged

\* mod.rs:566-585: select_action has returned.  Its action is applied, or
\* step() is called for no action; when the action opened a popup the agent
\* is asked for the input at once, and an input that comes back at once (the
\* request could not be sent) is submitted.  last.by keeps how the call that
\* is acted on returned.
AgentApply ==
    /\ IsSome(llm_ai.returned)
    /\ Unwrap(llm_ai.returned).kind = "SelectAction"
    /\ LET r == Unwrap(llm_ai.returned)
           taken == [llm_ai EXCEPT !.returned = None]
       IN  IF ~IsSome(r.value)
           THEN /\ SetGame(step(Game))
                /\ llm_ai' = taken
                /\ UNCHANGED ui_state
                /\ last' = [op |-> "agent_action", ret |-> FALSE, calls |-> <<>>,
                            battles |-> <<>>, ended |-> FALSE, chosen |-> <<>>, by |-> r.by]
           ELSE \E o \in {submit_action(Game, Unwrap(r.value))} :
                  IF o.ret /\ IsSome(o.g.popup)
                  THEN \E asked \in {Called(taken, "SelectPopupInput")} :
                         IF IsSome(asked.returned)
                         THEN \E o2 \in {submit_popup([o.g EXCEPT !.popup[1].input =
                                                          Unwrap(asked.returned).value])} :
                                /\ SetGame(o2.g)
                                /\ llm_ai' = [asked EXCEPT !.returned = None]
                                /\ ui_state' = "Normal"
                                /\ last' = [op |-> "agent_popup_input", ret |-> TRUE,
                                            calls |-> o2.calls, battles |-> <<>>,
                                            ended |-> FALSE,
                                            chosen |-> Resolution(Unwrap(o.g.popup).choices,
                                                                  Unwrap(asked.returned).value),
                                            by |-> Unwrap(asked.returned).by]
                         ELSE /\ SetGame(o.g)
                              /\ llm_ai' = asked
                              /\ ui_state' = "PopupOpen"
                              /\ last' = [op |-> "agent_action", ret |-> o.ret,
                                          calls |-> o.calls, battles |-> o.battles,
                                          ended |-> o.ended, chosen |-> <<>>, by |-> r.by]
                  ELSE /\ SetGame(o.g)
                       /\ llm_ai' = taken
                       /\ ui_state' = IF o.ret THEN "PopupOpen" ELSE "Normal"
                       /\ last' = [op |-> "agent_action", ret |-> o.ret,
                                   calls |-> o.calls, battles |-> o.battles,
                                   ended |-> o.ended, chosen |-> <<>>, by |-> r.by]

\* mod.rs:572-578: select_popup_input has returned and its input is submitted
\* to the popup the action opened
AgentSubmitPopup ==
    /\ IsSome(llm_ai.returned)
    /\ Unwrap(llm_ai.returned).kind = "SelectPopupInput"
    /\ IsSome(popup)
    /\ LET input == Unwrap(llm_ai.returned).value
       IN  \E o \in {submit_popup([Game EXCEPT !.popup[1].input = input])} :
              /\ SetGame(o.g)
              /\ llm_ai' = [llm_ai EXCEPT !.returned = None]
              /\ ui_state' = "Normal"
              /\ last' = [op |-> "agent_popup_input", ret |-> TRUE,
                          calls |-> o.calls, battles |-> <<>>, ended |-> FALSE,
                          chosen |-> Resolution(Unwrap(popup).choices, input),
                          by |-> Unwrap(llm_ai.returned).by]

\* the commands of the player who plays against the agent
PlayerTexts ==
    { WordEnd,
      <<"a", "t", "t", "a", "c", "k", " ", "b", "e", "t", "a">>,
      <<"b", "u", "i", "l", "d", " ", "f", "a", "r", "m">> }

\* a command of the player, during the turn of a civilization that no agent
\* plays
PlayerAction(action) ==
    /\ ~ais(Game, player_turn)
    /\ ApplyAction(action)

\* what an agent answers to select_action: no action, or one of the commands
\* "end", "build", "hire warrior" and "attack alpha"
AgentActions ==
    { None,
      Some(<<"e", "n", "d">>),
      Some(<<"b", "u", "i", "l", "d">>),
      Some(<<"h", "i", "r", "e", " ", "w", "a", "r", "r", "i", "o", "r">>),
      Some(<<"a", "t", "t", "a", "c", "k", " ", "a", "l", "p", "h", "a">>) }

\* the behaviours of an agent: a script of one answer, or of a command and
\* then no action, repeated for as long as the agent is asked
AgentScripts ==
    {<<a>> : a \in AgentActions} \cup {<<a, None>> : a \in AgentActions \ {None}}

\* a configuration with every city marked AI
AllAi(sc) ==
    [sc EXCEPT !.cities = [i \in DOMAIN sc.cities |->
                              [sc.cities[i] EXCEPT !.player_type = "AI"]]]

\* the configurations of the agent loop: the first two configurations as they
\* are, with one city of a player and one of an agent, and with both cities
\* marked AI
AgentScenarios ==
    LET ordinary == {sc \in Scenarios : sc.buildings = BuildingDefs}
    IN  ordinary \cup {AllAi(sc) : sc \in ordinary}

\* the configurations of a war.  In the first, three cities stand on a road:
\* Beta is four land steps from Alpha, two turns away, and one step from
\* Gamma.  In the second, Beta stands on water two steps from Alpha: Alpha's
\* army takes two turns to reach it and Beta's takes one to reach Alpha, so
\* that armies sent in consecutive turns arrive together.
WarScenarios ==
    { [map |-> [width |-> 6, height |-> 1,
                tiles |-> << <<"Plains", "Plains", "Plains", "Plains", "Plains",
                               "Plains">> >>],
       buildings |-> BuildingDefs, units |-> UnitDefs,
       cities |-> << City("Alpha", 0, 0, <<>>, <<Stack("Warrior", 3)>>, 1, 1, "PLAYER"),
                     City("Beta", 4, 0, <<"Barracks">>, <<Stack("Warrior", 2)>>, 2, 2,
                          "PLAYER"),
                     City("Gamma", 5, 0, <<>>, <<Stack("Knight", 1)>>, 1, 1,
                          "PLAYER") >>],
      [map |-> [width |-> 3, height |-> 1,
                tiles |-> << <<"Plains", "Plains", "Water">> >>],
       buildings |-> BuildingDefs, units |-> UnitDefs,
       cities |-> << City("Alpha", 0, 0, <<"Farm">>, <<Stack("Warrior", 2)>>, 2, 1,
                          "PLAYER"),
                     City("Beta", 2, 0, <<>>, <<Stack("Warrior", 1)>>, 1, 1,
                          "PLAYER") >>] }

\* the commands and the popup inputs of the war
WarTexts ==
    { WordEnd,
      WordAttack,
      <<"a", "t", "t", "a", "c", "k", " ", "a", "l", "p", "h", "a">>,
      <<"a", "t", "t", "a", "c", "k", " ", "b", "e", "t", "a">>,
      <<"a", "t", "t", "a", "c", "k", " ", "g", "a", "m", "m", "a">>,
      <<"b", "u", "i", "l", "d", " ", "f", "a", "r", "m">>,
      WordHire }

\* the templates of a configuration whose farm yields 4294967295 (all 32
\* bits set) a turn
BountyDefs ==
    << [name |-> "Farm", cost |-> 60, build_time |-> 1,
        production |-> [amount |-> -1, cost |-> 0, prod_type |-> "RESSOURCE",
                        prod_unit_id |-> None, time |-> 1]] >>

\* two neighbouring cities, one of which owns that farm
BountyScenarios ==
    { [map |-> MapBorder, buildings |-> BountyDefs, units |-> UnitDefs,
       cities |-> << City("Alpha", 0, 0, <<"Farm">>, <<Stack("Warrior", 2)>>, 2, 1,
                          "PLAYER"),
                     City("Beta", 1, 0, <<>>, <<Stack("Knight", 1)>>, 1, 1,
                          "PLAYER") >>] }

\* the names passed to the direct calls: the template names and an unknown one
CallNames ==
    {"Farm", "Barracks", "Vault", "Mint", "Warrior", "Knight", "Castle"}

\* the commands, as a player or an agent submits them
Next ==
    \/ \E action \in Texts : ApplyAction(action)
    \/ \E input \in PopupInputs : SubmitPopupInput(input)

Spec == Init /\ [][Next]_vars

\* the validated operations called directly, with any arguments, and the end
\* of a turn
NextCalls ==
    \/ \E c \in 0..(Len(civilizations) - 1), n \in CallNames : StartConstructionCall(c, n)
    \/ \E c \in 0..(Len(civilizations) - 1), n \in CallNames : StartRecruitmentCall(c, n)
    \/ \E a \in 0..Len(civilizations), d \in 0..Len(civilizations), m \in Amounts :
           StartAttackCall(a, d, m)
    \/ ApplyAction(WordEnd)

SpecCalls == Init /\ [][NextCalls]_vars

\* the calls of start_attack with any indices and amount
NextRoutes ==
    \E a \in 0..Len(civilizations), d \in 0..Len(civilizations), m \in Amounts :
        StartAttackCall(a, d, m)

\* the turns of the agents: an invocation of the agent loop, a turn ended by
\* a player, and step()
NextAgents ==
    \/ \E script \in AgentScripts : RunAiForCurrentPlayer(script)
    \/ ApplyAction(WordEnd)
    \/ Step

SpecAgents == InitFrom(AgentScenarios) /\ [][NextAgents]_vars

\* the attacks on every small map
SpecRoutes == InitFrom(RouteScenarios) /\ [][NextRoutes]_vars

\* the same operations from the configuration with the costly producer
SpecMint == InitFrom(MintScenarios) /\ [][NextCalls]_vars

\* the agent bridge alone: the game thread calls the LlmAi, the worker
\* receives and answers or ends, and the call returns
NextBridge ==
    \/ \E kind \in RequestKinds : LlmAiCall(kind)
    \/ WorkerRecv
    \/ \E completion \in Completions : WorkerRespond(completion)
    \/ WorkerExit
    \/ RecvOk
    \/ RecvDisconnected
    \/ RecvTimeout

SpecBridge == InitFrom(AgentScenarios) /\ [][NextBridge]_vars

\* recv_timeout returns after ten seconds at the latest, whatever the worker
\* does: a call in progress does return.  Nothing is assumed of the worker
\* or of the service.
FairBridge == SpecBridge /\ WF_vars(Recv)

\* a game of a player against the remote agent: the commands of the player,
\* the iterations of the agent loop, and the bridge
NextAgentBridge ==
    \/ \E action \in PlayerTexts : PlayerAction(action)
    \/ AgentSelectAction
    \/ AgentApply
    \/ AgentSubmitPopup
    \/ WorkerRecv
    \/ \E completion \in Completions : WorkerRespond(completion)
    \/ WorkerExit
    \/ RecvOk
    \/ RecvDisconnected
    \/ RecvTimeout

SpecAgentBridge ==
    InitFrom({sc \in Scenarios : sc.buildings = BuildingDefs}) /\ [][NextAgentBridge]_vars

\* the commands of a war and the inputs to its popups
NextWar ==
    \/ \E action \in WarTexts : ApplyAction(action)
    \/ \E input \in {<<"1">>, <<"2">>} : SubmitPopupInput(input)

SpecWar == InitFrom(WarScenarios) /\ [][NextWar]_vars

SpecBounty == InitFrom(BountyScenarios) /\ [][NextWar]_vars

\* the whole API: the commands, the popup submissions, step() and the turns
\* of the agents
NextApi ==
    \/ \E action \in Texts : ApplyAction(action)
    \/ \E input \in PopupInputs : SubmitPopupInput(input)
    \/ Step
    \/ \E action_opt \in AgentActions : RunAiIteration(action_opt)

SpecApi == Init /\ [][NextApi]_vars

(***************************************************************************)
(* The properties.                                                         *)
(***************************************************************************)
CivIndices == 0..(Len(civilizations) - 1)

\* the result of the validated operation called by the last call, "" when
\* it called none
LastResult == IF last.calls = <<>> THEN "" ELSE last.calls[1].result

\* C1: in every reachable state, for every civilization, the number of
\* completed buildings plus the number of queued constructions is at most
\* the building-slot capacity of its city
C1_BuildingSlots ==
    \A i \in DOMAIN civilizations :
        Len(civilizations[i].city.buildings) + Len(civilizations[i].constructions)
            <= civilizations[i].city.nb_slots_buildings

\* a city whose last free building slot is taken by a construction in the
\* queue, after an earlier construction was completed
C1_Witness ==
    \E i \in DOMAIN civilizations :
        /\ civilizations[i].constructions # <<>>
        /\ Len(civilizations[i].city.buildings) >= 1
        /\ Len(civilizations[i].city.buildings) + Len(civilizations[i].constructions)
               = civilizations[i].city.nb_slots_buildings

\* C2: in every reachable state, for every civilization, the number of unit
\* stacks of its city plus the number of queued recruitments is at most the
\* unit-slot capacity of its city
C2_UnitSlots ==
    \A i \in DOMAIN civilizations :
        Len(civilizations[i].city.units) + Len(civilizations[i].recruitments)
            <= civilizations[i].city.nb_slots_units

\* a city whose last free unit slot is taken by a recruitment in the queue
C2_Witness ==
    \E i \in DOMAIN civilizations :
        /\ civilizations[i].recruitments # <<>>
        /\ Len(civilizations[i].city.units) >= 1
        /\ Len(civilizations[i].city.units) + Len(civilizations[i].recruitments)
               = civilizations[i].city.nb_slots_units

\* at most one construction and one recruitment in flight
AtMostOneInFlight(civs) ==
    \A i \in DOMAIN civs :
        Len(civs[i].constructions) <= 1 /\ Len(civs[i].recruitments) <= 1

\* C3: every civilization has at most one construction and at most one
\* recruitment in flight, and a call of start_construction (resp.
\* start_recruitment) for a civilization whose construction (resp.
\* recruitment) queue is not empty is refused and changes nothing
C3_OneInFlight ==
    /\ AtMostOneInFlight(civilizations)
    /\ [][/\ AtMostOneInFlight(civilizations')
          /\ last'.op = "start_construction"
             => \A c \in CivIndices, n \in CallNames :
                   (civilizations[c + 1].constructions # <<>>
                       /\ StartConstructionCall(c, n))
                   => (last'.calls[1].result # "Ok" /\ UNCHANGED <<civilizations, travels>>)
          /\ last'.op = "start_recruitment"
             => \A c \in CivIndices, n \in CallNames :
                   (civilizations[c + 1].recruitments # <<>>
                       /\ StartRecruitmentCall(c, n))
                   => (last'.calls[1].result # "Ok" /\ UNCHANGED <<civilizations, travels>>)
       ]_vars

\* a construction was refused because another one is in progress
C3_Witness ==
    /\ last.op = "start_construction"
    /\ LastResult = "Another construction is already in progress"
    /\ \E i \in DOMAIN civilizations : Len(civilizations[i].constructions) = 1

\* balance < cost for an i32 balance and a u32 cost: a cost from 2^31 up is
\* above every balance
BelowCost(balance, cost) == cost < 0 \/ balance < cost

\* the call returned Ok with the balance lowered by the u32 cost and not
\* negative; the call returned an error with the balance as it was
PaidOrRefused(result, old, new, cost) ==
    /\ result = "Ok" => (cost >= 0 /\ new = old - cost /\ new >= 0)
    /\ result # "Ok" => new = old

\* C4, as the claim states it: start_construction and start_recruitment
\* refuse, with the balance unchanged, when the balance is below the cost (of
\* the building, resp. the production cost of the building that produces the
\* unit), and on success the new balance is the old balance minus the cost
\* and is not negative
C4_BalanceNeverNegative ==
    [][/\ last'.op = "start_construction"
          => \A c \in CivIndices, n \in CallNames :
                (FindBuilding(n) # 0 /\ StartConstructionCall(c, n))
                => LET cost == buildings[FindBuilding(n)].cost
                       old  == civilizations[c + 1].resources
                       new  == civilizations'[c + 1].resources
                   IN  /\ BelowCost(old, cost) => last'.calls[1].result # "Ok"
                       /\ PaidOrRefused(last'.calls[1].result, old, new, cost)
       /\ last'.op = "start_recruitment"
          => \A c \in CivIndices, n \in CallNames :
                (FindUnit(n) # 0 /\ Producer(civilizations[c + 1], n) # 0
                    /\ StartRecruitmentCall(c, n))
                => LET cost == buildings[Producer(civilizations[c + 1], n)].production.cost
                       old  == civilizations[c + 1].resources
                       new  == civilizations'[c + 1].resources
                   IN  /\ BelowCost(old, cost) => last'.calls[1].result # "Ok"
                       /\ PaidOrRefused(last'.calls[1].result, old, new, cost)
      ]_vars

\* C5, as the claim states it: whenever start_attack returns an error, the
\* game state is unchanged (the attacker's stacks are as before the call and
\* no travel was added)
C5_ErrorLeavesStateUnchanged ==
    [][(last'.op = "start_attack" /\ last'.calls[1].result # "Ok")
          => UNCHANGED <<turn, player_turn, civilizations, popup, travels, game_over>>
      ]_vars

\* the text of a command as submit_action reads it
Lowered(action) == ToLower(Trim(action))

\* the template or the city that a word names without regard to case,
\* 0 when none does
NamedBuilding(w) == FindFirst({i \in DOMAIN buildings : ToLower(Chars(buildings[i].name)) = w})

NamedUnit(w) == FindFirst({i \in DOMAIN units : ToLower(Chars(units[i].name)) = w})

NamedCity(w) == FindFirst({i \in DOMAIN civilizations : ToLower(Chars(civilizations[i].city.name)) = w})

\* the outcome o of a command is a refusal: true is returned, a popup with
\* the title and no choices is open, and the balances, buildings, units,
\* queues, travels, turn counter and active player are as in the state
Refusal(o, title) ==
    /\ o.ret
    /\ IsSome(o.g.popup)
    /\ Unwrap(o.g.popup).title = title
    /\ Unwrap(o.g.popup).choices = <<>>
    /\ o.g.civilizations = civilizations
    /\ o.g.travels = travels
    /\ o.g.turn = turn
    /\ o.g.player_turn = player_turn

\* the command is refused under the title, and the prompt of the popup
\* names the unknown word
RefusedWord(action, title, word) ==
    \A o \in {submit_action(Game, action)} :
        Refusal(o, title) /\ Unwrap(o.g.popup).prompt.words = <<word>>

\* the command is refused under the title, and the prompt of the popup is
\* the text of the error
RefusedError(action, title, error) ==
    \A o \in {submit_action(Game, action)} :
        Refusal(o, title) /\ Unwrap(o.g.popup).prompt.text = error

\* C6: in every reachable state, a command with an unknown verb, with an
\* unknown building, unit or target name, or a build or hire that
\* start_construction or start_recruitment refuses, returns true and opens
\* a popup without choices, titled after the verb ("Action" for an unknown
\* verb), whose prompt carries the error (the unknown word, resp. the text
\* of the refusal), and changes no balance, building, unit, queue, travel,
\* nor the turn counter or the active player
C6_RejectedCommandOpensPopup ==
    \A action \in Texts :
      \A txt \in {Lowered(action)} :
        \A parts \in {SplitWhitespace(txt)} :
            /\ (txt # <<>> /\ txt # WordEnd /\ txt # WordEndTurn
                   /\ parts[1] \notin {WordBuild, WordHire, WordRecruit, WordAttack})
               => RefusedWord(action, "Action", txt)
            /\ (txt # <<>> /\ parts[1] = WordBuild /\ Len(parts) >= 2)
               => IF NamedBuilding(parts[2]) = 0
                  THEN RefusedWord(action, "Build", parts[2])
                  ELSE \A r \in {start_construction(Game, player_turn,
                                     buildings[NamedBuilding(parts[2])].name)} :
                           r.result # "Ok" => RefusedError(action, "Build", r.result)
            /\ (txt # <<>> /\ parts[1] \in {WordHire, WordRecruit} /\ Len(parts) >= 2)
               => IF NamedUnit(parts[2]) = 0
                  THEN RefusedWord(action, "Hire", parts[2])
                  ELSE \A r \in {start_recruitment(Game, player_turn,
                                     units[NamedUnit(parts[2])].name)} :
                           r.result # "Ok" => RefusedError(action, "Hire", r.result)
            /\ (txt # <<>> /\ parts[1] = WordAttack /\ Len(parts) >= 2
                   /\ NamedCity(parts[2]) = 0)
               => RefusedWord(action, "Attack", parts[2])

\* "build farm" was submitted with a balance below the cost of a farm: the
\* "Build" popup carries the error and the balance is still below the cost
C6_Witness ==
    /\ last.op = "apply_action"
    /\ last.ret
    /\ LastResult = "Not enough resources for building"
    /\ IsSome(popup)
    /\ Unwrap(popup).title = "Build"
    /\ Unwrap(popup).prompt.text = "Not enough resources for building"
    /\ FindBuilding("Farm") # 0
    /\ civilizations[player_turn + 1].resources < buildings[FindBuilding("Farm")].cost

\* every timer of a queue of travels lowered by one
Lowered1(ts) == [i \in DOMAIN ts |-> [ts[i] EXCEPT !.remaining = @ - 1]]

\* C7: a call of on_turn_start lowers the remaining counter of every travel
\* in flight by exactly one and removes, in the same call, the travels whose
\* counter reaches zero; no other operation touches a travel in flight, and
\* a new travel starts with remaining = total; so every travel of the list
\* has 1 <= remaining <= total, and a travel of total T leaves the list in
\* the T-th call of on_turn_start after its creation
C7_TravelCountdown ==
    [][/\ \A i \in DOMAIN travels' :
             1 <= travels'[i].remaining /\ travels'[i].remaining <= travels'[i].total
       /\ last'.ended
          => travels' = SelectSeq(Lowered1(travels), LAMBDA t : t.remaining # 0)
       /\ ~last'.ended
          => /\ Len(travels') >= Len(travels)
             /\ SubSeq(travels', 1, Len(travels)) = travels
             /\ \A i \in (Len(travels) + 1)..Len(travels') :
                   travels'[i].remaining = travels'[i].total
      ]_vars

\* a turn has started with a travel still in flight after its counter was
\* lowered, while another travel arrived in the same call
C7_Witness ==
    /\ last.ended
    /\ last.battles # <<>>
    /\ \E i \in DOMAIN travels : travels[i].remaining < travels[i].total

\* the attack value of the unit template of a stack, 0 when there is none
StackAttack(stack) ==
    IF \E i \in DOMAIN units : units[i].name = stack.id_units
    THEN units[CHOOSE i \in DOMAIN units :
                   /\ units[i].name = stack.id_units
                   /\ \A j \in 1..(i - 1) : units[j].name # stack.id_units].attack
    ELSE 0

\* every count and attack value of the stacks is below 2^31, so that the
\* power of the city is the sum below
BelowTwo31(stacks) ==
    \A i \in DOMAIN stacks : stacks[i].nb_units >= 0 /\ StackAttack(stacks[i]) >= 0

\* the sum of unit_count x unit_attack over the stacks
RECURSIVE PowerSum(_)
PowerSum(stacks) ==
    IF stacks = <<>> THEN 0
    ELSE Head(stacks).nb_units * StackAttack(Head(stacks)) + PowerSum(Tail(stacks))

\* amount > power of the stacks, for a u32 amount: an amount from 2^31 up is
\* above every power that the sum gives
AbovePower(amount, stacks) ==
    BelowTwo31(stacks) /\ (amount < 0 \/ amount > PowerSum(stacks))

\* amount <= power of the stacks, for an amount below 2^31: a stack with a
\* count or an attack value from 2^31 up alone has a power of 2^31 or more
WithinPower(amount, stacks) ==
    /\ amount >= 0
    /\ IF BelowTwo31(stacks) THEN amount <= PowerSum(stacks)
       ELSE \E i \in DOMAIN stacks :
               \/ stacks[i].nb_units < 0 /\ StackAttack(stacks[i]) > 0
               \/ stacks[i].nb_units > 0 /\ StackAttack(stacks[i]) < 0

\* the resolutions of the call of on_turn_start that led to the state in
\* which both sides were alive
Fought == {k \in DOMAIN last.battles :
              last.battles[k].attacker_alive /\ last.battles[k].defender_alive}

\* C8, as the claim states it: when a travel arrives with both sides alive
\* and its amount above the power of the defender, the defender is not alive
\* and has no unit stack when that call of on_turn_start returns
C8_StrongerAttackerEliminates ==
    \A k \in Fought :
        LET b == last.battles[k]
        IN  AbovePower(b.travel.amount, b.before)
            => /\ ~b.alive_after /\ b.after = <<>>
               /\ ~civilizations[b.travel.defender + 1].alive
               /\ civilizations[b.travel.defender + 1].city.units = <<>>

\* C9, as the claim states it: when a travel arrives with both sides alive
\* and its amount at most the power of the defender, the defender stays
\* alive and its number of units goes down by exactly floor(amount / 2)
C9_WeakerAttackerCostsHalf ==
    \A k \in Fought :
        LET b == last.battles[k]
        IN  WithinPower(b.travel.amount, b.before)
            => /\ b.alive_after
               /\ TotalUnits(b.after) = TotalUnits(b.before) - U32Half(b.travel.amount)

\* the number of units of the unit id in the stacks, 0 when it has no stack
UnitsOf(stacks, id) ==
    IF \E i \in DOMAIN stacks : stacks[i].id_units = id
    THEN (CHOOSE st \in Range(stacks) : st.id_units = id).nb_units
    ELSE 0

\* C10, as the claim states it: casualties are taken from the stacks in
\* ascending order of size: a stack loses units only if every strictly
\* smaller stack of the city has lost all of its units
C10_SmallestStackFirst ==
    \A k \in Fought :
        LET b == last.battles[k]
        IN  b.outcome = "held"
            => \A i, j \in DOMAIN b.before :
                  (/\ UnitsOf(b.after, b.before[i].id_units) # b.before[i].nb_units
                   /\ b.before[j].nb_units # b.before[i].nb_units
                   /\ U32Le(b.before[j].nb_units, b.before[i].nb_units))
                  => UnitsOf(b.after, b.before[j].id_units) = 0

\* the number of civilizations that are alive
AliveCount == Cardinality({i \in DOMAIN civilizations : civilizations[i].alive})

\* C11: game_over is a latch: no operation (a command, a popup submission,
\* step(), an iteration of an agent's turn) takes it from true to false, so
\* it changes from false to true at most once
C11_GameOverLatch == [][game_over => game_over']_vars

\* a turn has started, with no battle to resolve, in a game that was over
\* before
C11_Witness ==
    /\ game_over
    /\ last.ended
    /\ last.battles = <<>>

\* C12: in every state, game_over is true if and only if at most one
\* civilization is alive: the flag is set by the call of on_turn_start in
\* which the alive count drops to one or fewer
C12_GameOverIffOneAlive == game_over <=> AliveCount <= 1

\* the turn start that eliminated a defender has set the flag
C12_Witness ==
    /\ game_over
    /\ AliveCount = 1
    /\ last.ended
    /\ \E k \in DOMAIN last.battles : last.battles[k].outcome = "eliminated"

\* C13: the active-player index is always in 0..N-1 and the turn counter
\* never decreases; the command "end" (or "end turn") sets the index to
\* (index + 1) mod N, adds one to the turn counter exactly when the new
\* index is 0, and leaves the state that one call of on_turn_start for the
\* new active civilization produces from there
C13_EndAdvancesTurn ==
    /\ player_turn \in 0..(Len(civilizations) - 1)
    /\ [][/\ player_turn' \in 0..(Len(civilizations') - 1)
          /\ turn' >= turn
          /\ (last'.op = "apply_action" /\ last'.ended)
             => \A next \in {(player_turn + 1) % Len(civilizations)} :
                   /\ player_turn' = next
                   /\ turn' = IF next = 0 THEN turn + 1 ELSE turn
                   /\ \A ts \in {on_turn_start([Game EXCEPT !.player_turn = next,
                                                            !.turn = turn'], next)} :
                         /\ civilizations' = ts.g.civilizations
                         /\ travels' = ts.g.travels
                         /\ game_over' = ts.g.game_over
                         /\ popup' = ts.g.popup
                         /\ last'.battles = ts.battles
         ]_vars

\* the last civilization has ended its turn: the index is back to 0 and the
\* second turn has begun
C13_Witness ==
    /\ last.op = "apply_action"
    /\ last.ended
    /\ player_turn = 0
    /\ turn = 2

\* the simulation state that the claims compare: the active player, the
\* turn counter, the civilizations (balances, queues, buildings, units,
\* alive flags), the travels and the game-over flag
Simulation(g) == <<g.player_turn, g.turn, g.civilizations, g.travels, g.game_over>>

\* C14, as the claim states it: step(), called directly or by the agent
\* loop for an agent that returns no action, leaves the active player, the
\* turn counter, the balances, queues, buildings, units, travels and the
\* game-over flag that the command "end" leaves from the same state
C14_StepIsEndTurn ==
    [][(last'.op \in {"step", "run_ai"} /\ ~last'.ended /\ player_turn' # player_turn)
       => \A o \in {submit_action(Game, WordEnd)} :
             <<player_turn', turn', civilizations', travels', game_over'>> = Simulation(o.g)
      ]_vars

\* C15, as the claim states it: apply_action returns true if and only if a
\* popup is open when it returns, for every command
C15_ReturnsPopupOpen ==
    last.op = "apply_action" => (last.ret <=> IsSome(popup))

\* C16: submit_popup_input returns true exactly when a popup was open at
\* the call; with no popup open it returns false and changes nothing
C16_PopupInputReturnsPresence ==
    [][last'.op = "submit_popup_input"
       => /\ last'.ret <=> IsSome(popup)
          /\ popup = None
             => UNCHANGED <<map, buildings, units, turn, player_turn, civilizations,
                            popup, travels, game_over, ui_state>>
      ]_vars

\* an input was submitted while no popup was open
C16_Witness ==
    /\ last.op = "submit_popup_input"
    /\ ~last.ret
    /\ popup = None

\* the text a is a prefix of the text b, letter case ignored
IsPrefixIgnoringCase(a, b) ==
    /\ Len(a) <= Len(b)
    /\ \A i \in 1..Len(a) : LowerChar(a[i]) = LowerChar(b[i])

\* the choice that the claim gives for the input: the k-th choice if the
\* trimmed input is an integer k with 1 <= k <= number of choices, the
\* first choice that the trimmed input is a case-insensitive prefix of
\* otherwise, none if there is no such choice
ClaimedChoice(choices, input) ==
    LET sel == Trim(input)
        k == ParseUnsigned(sel)
        matches == {i \in DOMAIN choices : IsPrefixIgnoringCase(sel, Chars(choices[i]))}
    IN  IF IsSome(k) /\ 1 <= Unwrap(k) /\ Unwrap(k) <= Len(choices)
        THEN Some(choices[Unwrap(k)])
        ELSE IF matches # {}
             THEN Some(choices[CHOOSE i \in matches : \A j \in matches : i <= j])
             ELSE None

\* C17: for every popup with choices that is open in a reachable state and
\* every input, submit_popup chooses the k-th choice when the trimmed input
\* is an integer k within 1..number of choices, and otherwise the first
\* choice that the input is a case-insensitive prefix of; with the choices
\* Farm, Barracks the input "1" chooses Farm and "bar" chooses Barracks
C17_PopupChoice ==
    (IsSome(popup) /\ Unwrap(popup).choices # <<>>)
    => \A cs \in {Unwrap(popup).choices} :
          /\ \A input \in ChoiceInputs : Chosen(cs, input) = ClaimedChoice(cs, input)
          /\ cs = <<"Farm", "Barracks">>
             => /\ Chosen(cs, <<"1">>) = Some("Farm")
                /\ Chosen(cs, <<"b", "a", "r">>) = Some("Barracks")

\* the popup of "build" was answered with an input that chose Barracks, and
\* the construction of the Barracks has started
C17_Witness ==
    /\ last.op = "submit_popup_input"
    /\ last.chosen = <<"chosen", "Barracks">>
    /\ last.calls = <<Call("start_construction", "Ok")>>
    /\ \E k \in DOMAIN civilizations[player_turn + 1].constructions :
           civilizations[player_turn + 1].constructions[k].id_building = "Barracks"

\* C18: submitting to a popup with choices an input that is neither a
\* valid 1-based index nor a case-insensitive prefix of a choice calls none
\* of start_construction, start_recruitment and start_attack and changes no
\* civilization (balance, buildings, units, queues), nor the travels, the
\* turn counter, the active player or the game-over flag
C18_UnresolvedInputIsNoOp ==
    [][last'.op = "submit_popup_input"
       => \A input \in PopupInputs :
             (/\ IsSome(popup)
              /\ Unwrap(popup).choices # <<>>
              /\ ClaimedChoice(Unwrap(popup).choices, input) = None
              /\ SubmitPopupInput(input))
             => /\ last'.calls = <<>>
                /\ UNCHANGED <<civilizations, travels, turn, player_turn, game_over>>
      ]_vars

\* a popup with choices was answered with an input that selected none
C18_Witness ==
    /\ last.op = "submit_popup_input"
    /\ last.ret
    /\ last.chosen = <<"unresolved">>
    /\ last.calls = <<>>

\* the text of the 1-based position of a choice
IndexText(i) ==
    <<CASE i = 1 -> "1" [] i = 2 -> "2" [] i = 3 -> "3" [] i = 4 -> "4" [] i = 5 -> "5"
        [] i = 6 -> "6" [] i = 7 -> "7" [] i = 8 -> "8" [] i = 9 -> "9">>

\* the command made of a verb and the lowered name of its argument
Command(verb, name) == verb \o <<" ">> \o ToLower(Chars(name))

\* from the state g, the verb alone followed by a popup submission of each
\* input that selects the name (its position in the choices, and the name
\* itself) calls the same operation with the same result, and leaves the
\* same simulation state, as the verb followed by the name
SamePaths(g, verb, name) ==
    \A d \in {submit_action(g, Command(verb, name))} :
    \A a \in {submit_action(g, verb)} :
        /\ a.ret
        /\ IsSome(a.g.popup)
        /\ \E i \in DOMAIN Unwrap(a.g.popup).choices : Unwrap(a.g.popup).choices[i] = name
        /\ \A input \in {IndexText(i) : i \in {j \in DOMAIN Unwrap(a.g.popup).choices :
                                               Unwrap(a.g.popup).choices[j] = name}}
                        \cup {Chars(name)} :
              ClaimedChoice(Unwrap(a.g.popup).choices, input) = Some(name)
              => \A b \in {submit_popup([a.g EXCEPT !.popup[1].input = input])} :
                    /\ Simulation(b.g) = Simulation(d.g)
                    /\ b.calls = d.calls
                    /\ IsSome(b.g.popup) <=> d.ret

\* C19: in every reachable state, "build" followed by the popup input
\* selecting a building leaves the civilizations, the travels, the turn
\* counter and the active player as "build <name>" does, with the same
\* operation called and the same result, accepted or refused; likewise
\* "hire" and "recruit" with every unit, and "attack" with every other city
C19_PopupPathIsDirectPath ==
    /\ \A i \in DOMAIN buildings : SamePaths(Game, WordBuild, buildings[i].name)
    /\ \A i \in DOMAIN units :
          /\ SamePaths(Game, WordHire, units[i].name)
          /\ SamePaths(Game, WordRecruit, units[i].name)
    /\ \A i \in DOMAIN civilizations :
          i - 1 # player_turn => SamePaths(Game, WordAttack, civilizations[i].city.name)

\* an attack chosen in the popup of "attack" has started
C19_Witness ==
    /\ last.op = "submit_popup_input"
    /\ Len(last.chosen) = 2
    /\ last.calls = <<Call("start_attack", "Ok")>>
    /\ travels # <<>>

\* the command of the verb alone opens a popup of the title with exactly
\* the choices, calls no operation and changes no simulation state
OffersChoices(verb, title, choices) ==
    \A o \in {submit_action(Game, verb)} :
        /\ o.ret
        /\ o.calls = <<>>
        /\ Simulation(o.g) = Simulation(Game)
        /\ IsSome(o.g.popup)
        /\ Unwrap(o.g.popup).title = title
        /\ Unwrap(o.g.popup).choices = choices

\* C20: in every reachable state a verb without its argument changes no
\* simulation state and opens a popup whose choices are exactly the valid
\* options: "build" the names of all the building templates, "hire" and
\* "recruit" the names of all the unit templates, "attack" the names of
\* the civilizations other than the active one, in their order
C20_VerbAloneOffersChoices ==
    /\ OffersChoices(WordBuild, "Build", [i \in DOMAIN buildings |-> buildings[i].name])
    /\ OffersChoices(WordHire, "Hire", [i \in DOMAIN units |-> units[i].name])
    /\ OffersChoices(WordRecruit, "Hire", [i \in DOMAIN units |-> units[i].name])
    /\ \A others \in {SelectSeq([i \in DOMAIN civilizations |-> i],
                                LAMBDA i : i - 1 # player_turn)} :
          /\ OffersChoices(WordAttack, "Attack",
                           [k \in DOMAIN others |-> civilizations[others[k]].city.name])
          /\ \A o \in {submit_action(Game, WordAttack)} :
                \A k \in DOMAIN Unwrap(o.g.popup).choices :
                    Unwrap(o.g.popup).choices[k] # civilizations[player_turn + 1].city.name

\* the second civilization has submitted "attack": the popup offers the
\* first city only
C20_Witness ==
    /\ last.op = "apply_action"
    /\ last.ret
    /\ last.calls = <<>>
    /\ player_turn = 1
    /\ IsSome(popup)
    /\ Unwrap(popup).title = "Attack"
    /\ Unwrap(popup).choices = <<"Alpha">>

\* the outcome the claim gives a call of start_construction: the first of the
\* four checks that holds, in the order unknown building, construction in
\* progress, no free slot, balance below the cost
ClaimedConstruction(civ, name) ==
    IF FindBuilding(name) = 0 THEN "Unknown building"
    ELSE IF civ.constructions # <<>> THEN "Another construction is already in progress"
    ELSE IF Len(civ.city.buildings) + Len(civ.constructions) >= civ.city.nb_slots_buildings
         THEN "No available building slots"
    ELSE IF BelowCost(civ.resources, buildings[FindBuilding(name)].cost)
         THEN "Not enough resources for building"
    ELSE "Ok"

\* C21, as the claim states it: start_construction fails with the first of
\* the checks (unknown building, construction in progress, no free slot,
\* balance below the cost) that holds and changes nothing; when none holds it
\* lowers the balance by the cost of the building and appends one
\* construction whose remaining and total are the build time
C21_ConstructionChecksInOrder ==
    [][last'.op = "start_construction"
          => \A c \in CivIndices, n \in CallNames :
                StartConstructionCall(c, n)
                => LET civ     == civilizations[c + 1]
                       claimed == ClaimedConstruction(civ, n)
                   IN  /\ last'.calls[1].result = claimed
                       /\ claimed # "Ok"
                          => UNCHANGED <<turn, player_turn, civilizations, popup,
                                         travels, game_over>>
                       /\ claimed = "Ok"
                          => LET b == buildings[FindBuilding(n)]
                             IN  civilizations' =
                                   [civilizations EXCEPT
                                      ![c + 1].resources = @ - b.cost,
                                      ![c + 1].constructions =
                                          Append(@, [id_building |-> b.name,
                                                     remaining |-> b.build_time,
                                                     total |-> b.build_time])]
      ]_vars

\* the templates of the completed buildings of a city that produce the unit:
\* production type unit and produced unit the requested one
ProducersBuilt(civ, unit_name) ==
    {bi \in DOMAIN buildings :
        /\ \E i \in DOMAIN civ.city.buildings :
               civ.city.buildings[i].id_building = buildings[bi].name
        /\ buildings[bi].production.prod_type = "UNIT"
        /\ buildings[bi].production.prod_unit_id = Some(unit_name)}

\* C22, as the claim states it: start_recruitment returns Ok only for a
\* civilization with a completed building (a queued construction does not
\* count) whose production type is unit and whose produced unit is the
\* requested one; on Ok the balance is lowered by the production cost of that
\* building, a u32, and the timer of the new recruitment is its production
\* time; on an error nothing changes
C22_RecruitmentNeedsBuiltProducer ==
    [][last'.op = "start_recruitment"
          => \A c \in CivIndices, n \in CallNames :
                StartRecruitmentCall(c, n)
                => LET civ == civilizations[c + 1]
                       new == civilizations'[c + 1]
                   IN  IF last'.calls[1].result = "Ok"
                       THEN /\ Len(new.recruitments) = Len(civ.recruitments) + 1
                            /\ \E bi \in ProducersBuilt(civ, n) :
                                  /\ buildings[bi].production.cost >= 0
                                  /\ new.resources =
                                         civ.resources - buildings[bi].production.cost
                                  /\ new.recruitments[Len(new.recruitments)].remaining =
                                         buildings[bi].production.time
                                  /\ new.recruitments[Len(new.recruitments)].id_unit = n
                       ELSE UNCHANGED <<turn, player_turn, civilizations, popup,
                                        travels, game_over>>
      ]_vars

\* the cells that a walk from the cells seen reaches by steps between
\* 4-adjacent in-bounds cells that enter no mountain cell
RECURSIVE Flood(_, _)
Flood(m, seen) ==
    LET cells == (0..(m.width - 1)) \X (0..(m.height - 1))
        more  == {c \in cells \ seen :
                    /\ TileAt(m, c[1], c[2]) # "Mountain"
                    /\ \E k \in DOMAIN Neighbors :
                          <<c[1] + Neighbors[k][1], c[2] + Neighbors[k][2]>> \in seen}
    IN  IF more = {} THEN seen ELSE Flood(m, seen \cup more)

\* the city of the defender can be reached from the city of the attacker
Reachable(m, a, b) ==
    /\ InBounds(m, a.x, a.y)
    /\ InBounds(m, b.x, b.y)
    /\ <<b.x, b.y>> \in Flood(m, {<<a.x, a.y>>})

\* the refusals that the claim lists: an index out of range, the attacker
\* attacking itself, the game over, a side that is not alive, an attacker
\* without units
ListedRefusal(a, d) ==
    \/ a >= Len(civilizations) \/ d >= Len(civilizations)
    \/ a = d
    \/ game_over
    \/ ~civilizations[a + 1].alive
    \/ ~civilizations[d + 1].alive
    \/ TotalUnits(civilizations[a + 1].city.units) = 0

\* the outcome of start_attack in the present state adds exactly one travel
\* behind the travels there are
OneTravelAdded(r) ==
    /\ Len(r.g.travels) = Len(travels) + 1
    /\ SubSeq(r.g.travels, 1, Len(travels)) = travels

\* the calls of start_attack that the present state admits
AttackCalls ==
    IF Played < MaxPlayed /\ Len(travels) < MaxTravels
    THEN (0..Len(civilizations)) \X (0..Len(civilizations)) \X Amounts
    ELSE {}

\* C23, as the claim states it: start_attack fails and creates no travel in
\* each of the listed cases, and in every other case with a reachable target
\* it returns Ok and appends exactly one travel
C23_AttackFailures ==
    \A call \in AttackCalls :
        LET r == start_attack(Game, call[1], call[2], call[3])
        IN  IF ListedRefusal(call[1], call[2])
            THEN r.result # "Ok" /\ r.g.travels = travels
            ELSE Reachable(map, civilizations[call[1] + 1].city,
                           civilizations[call[2] + 1].city)
                 => (r.result = "Ok" /\ OneTravelAdded(r))

\* C23, amended: start_attack fails and creates no travel in each of the
\* listed cases and when the requested amount is 0; in every other case with
\* a reachable target it returns Ok and appends exactly one travel
C23_AttackFailuresAmended ==
    \A call \in AttackCalls :
        LET r == start_attack(Game, call[1], call[2], call[3])
        IN  IF ListedRefusal(call[1], call[2]) \/ call[3] = Some(0)
            THEN r.result # "Ok" /\ r.g.travels = travels
            ELSE Reachable(map, civilizations[call[1] + 1].city,
                           civilizations[call[2] + 1].city)
                 => (r.result = "Ok" /\ OneTravelAdded(r))

\* an attack on a reachable target with an attacker that has units was
\* refused for its amount of 0
C23_Witness ==
    /\ last.op = "start_attack"
    /\ LastResult = "Invalid amount to send"
    /\ travels = <<>>
    /\ \A i \in DOMAIN civilizations :
           civilizations[i].alive /\ TotalUnits(civilizations[i].city.units) # 0
    /\ Reachable(map, civilizations[1].city, civilizations[2].city)

\* the number of units that the claim has start_attack send: the requested
\* amount or the total if that is less, the total when no amount is given
ClaimedSent(amount_opt, total) ==
    IF amount_opt = None THEN total ELSE U32Min(Unwrap(amount_opt), total)

\* C24: a call of start_attack that returns Ok sends min(requested, total
\* available) units, or all of them when no amount is given: the total of
\* the attacker's stacks is lower by that number after the call and the
\* amount of the new travel is that number; and no step, the resolution of a
\* travel included, raises the total of a civilization that has no
\* recruitment in its queue
C24_UnitsSentAreDebited ==
    /\ \A call \in AttackCalls :
          LET r == start_attack(Game, call[1], call[2], call[3])
          IN  r.result = "Ok"
              => LET total == TotalUnits(civilizations[call[1] + 1].city.units)
                     sent  == ClaimedSent(call[3], total)
                 IN  /\ TotalUnits(r.g.civilizations[call[1] + 1].city.units)
                            = total - sent
                     /\ r.g.travels[Len(r.g.travels)].amount = sent
                     /\ r.g.travels[Len(r.g.travels)].attacker = call[1]
    /\ [][\A i \in DOMAIN civilizations :
             civilizations[i].recruitments = <<>>
             => U32Le(TotalUnits(civilizations'[i].city.units),
                      TotalUnits(civilizations[i].city.units))
         ]_vars

\* a travel of three of the four units of a city was resolved and the
\* defender held: the attacker is left with the one unit that stayed
C24_Witness ==
    /\ last.ended
    /\ \E k \in DOMAIN last.battles :
           /\ last.battles[k].outcome = "held"
           /\ last.battles[k].travel.amount = 3
           /\ TotalUnits(civilizations[last.battles[k].travel.attacker + 1].city.units) = 1

\* the cost of a path when entering a water cell costs three times entering
\* a land cell: the cells entered are those after the first
RECURSIVE RouteCost(_, _, _)
RouteCost(m, path, i) ==
    IF i > Len(path) THEN 0
    ELSE (IF TileAt(m, path[i][1], path[i][2]) = "Water" THEN 3 ELSE 1)
         + RouteCost(m, path, i + 1)

\* the cost that stands for no path: above the cost of every path
NoRoute == DistMax

\* the cells next to the cell c
Around(c) == {<<c[1] + Neighbors[j][1], c[2] + Neighbors[j][2]>> : j \in DOMAIN Neighbors}

\* the pairs <<k, c>> of a cost k up to most and a cell c that a walk from
\* the source reaches at a cost of at most k; within holds the pairs of the
\* costs below k.  A land cell is reached at k from a cell next to it reached
\* at k - 1, a water cell from a cell next to it reached at k - 3.
RECURSIVE Within(_, _, _, _)
Within(m, within, k, most) ==
    LET cells == (0..(m.width - 1)) \X (0..(m.height - 1))
        At(j) == {c \in cells : <<j, c>> \in within}
        next  == At(k - 1) \cup
                 {c \in cells :
                     /\ TileAt(m, c[1], c[2]) # "Mountain"
                     /\ Around(c) \cap At(IF TileAt(m, c[1], c[2]) = "Water"
                                          THEN k - 3 ELSE k - 1) # {}}
    IN  IF k > most THEN within
        ELSE UNION {Within(m, more, k + 1, most) :
                       more \in {within \cup {<<k, c>> : c \in next}}}

\* the least cost of a path from src to dst, NoRoute when there is none: a
\* path without a repeated cell enters every other cell at most once, at a
\* cost of at most three
LeastCost(m, src, dst) ==
    LET cells == (0..(m.width - 1)) \X (0..(m.height - 1))
        most  == 3 * (m.width * m.height - 1)
    IN  IF src \notin cells \/ dst \notin cells THEN NoRoute
        ELSE CHOOSE least \in
                 UNION {IF \E k \in 0..most : <<k, dst>> \in within
                        THEN {k \in 0..most :
                                 /\ <<k, dst>> \in within
                                 /\ \A j \in 0..(k - 1) : <<j, dst>> \notin within}
                        ELSE {NoRoute} :
                        within \in {Within(m, {<<0, src>>}, 1, most)}} : TRUE

\* the path goes from the city a to the city b by steps between 4-adjacent
\* in-bounds cells, enters no mountain cell and has the least cost
LeastRoute(m, path, a, b) ==
    /\ path # <<>>
    /\ path[1] = <<a.x, a.y>>
    /\ path[Len(path)] = <<b.x, b.y>>
    /\ \A i \in 2..Len(path) :
          /\ InBounds(m, path[i][1], path[i][2])
          /\ TileAt(m, path[i][1], path[i][2]) # "Mountain"
          /\ \E j \in DOMAIN Neighbors :
                path[i] = <<path[i - 1][1] + Neighbors[j][1],
                            path[i - 1][2] + Neighbors[j][2]>>
    /\ RouteCost(m, path, 2) = LeastCost(m, <<a.x, a.y>>, <<b.x, b.y>>)

RECURSIVE Entered(_, _, _, _)
Entered(m, path, i, water) ==
    IF i > Len(path) THEN 0
    ELSE (IF (TileAt(m, path[i][1], path[i][2]) = "Water") = water THEN 1 ELSE 0)
         + Entered(m, path, i + 1, water)

\* max(1, ceil(L/3 + W)) for L land cells and W water cells
ClaimedTurns(L, W) ==
    LET up == (L + 3 * W + 2) \div 3 IN IF up < 1 THEN 1 ELSE up

\* C26, as the claim states it: the remaining and the total of the travel
\* that a call of start_attack appends are max(1, ceil(L/3 + W)) for the L
\* land cells and the W water cells entered along its path
C26_TravelTime ==
    \A call \in AttackCalls :
        LET r == start_attack(Game, call[1], call[2], call[3])
        IN  r.result = "Ok"
            => LET t == r.g.travels[Len(r.g.travels)]
                   turns == ClaimedTurns(Entered(map, t.path, 2, FALSE),
                                         Entered(map, t.path, 2, TRUE))
               IN  t.remaining = turns /\ t.total = turns

\* C27: every invocation of run_ai_for_current_player leaves its loop, and
\* leaves it after at most 256 requests for an action, whatever the agent
\* answers and whether one or every civilization is run by an agent
C27_AgentLoopTerminates ==
    last.op = "run_ai_for_current_player"
    => (last.left /\ last.actions_done <= 256)

\* an invocation that was stopped by the cap: every civilization is run by
\* an agent and the loop was left after 256 requests
C27_Witness ==
    /\ last.op = "run_ai_for_current_player"
    /\ last.left
    /\ last.actions_done = 256
    /\ \A i \in DOMAIN civilizations : civilizations[i].city.player_type = "AI"

\* C28, as the claim states it: once an agent has answered with no action,
\* the invocation of run_ai_for_current_player asks no agent for an action
\* again
C28_NoRequestAfterNoAction ==
    (last.op = "run_ai_for_current_player" /\ last.none_seen)
    => ~last.asked_after_none

(***************************************************************************)
(* The agent bridge.                                                       *)
(***************************************************************************)
\* the decision service failed: the request ended in an error, the
\* completion has no choice, or its first choice has no content
ServiceFailed(completion) ==
    \/ ~completion.ok
    \/ Len(completion.choices) = 0
    \/ ~IsSome(completion.choices[1].content)

\* the call that returned had no answer of the service: the request could
\* not be sent, the response channel was dropped, the wait timed out, or the
\* worker answered after the service failed
BridgeFailed(r) ==
    \/ r.by \in {"send_failed", "disconnected", "timeout"}
    \/ r.by = "received" /\ ServiceFailed(Unwrap(r.completion))

\* C29: whenever a call of the LlmAi returns after a failure of the bridge
\* (request channel closed, response channel dropped, timeout, or the service
\* answering with an error, no choice or no content), select_action has
\* returned Some("end") and select_popup_input the empty string; and
\* select_action never returns None, failure or not.
C29_FailuresReturnDefaults ==
    IsSome(llm_ai.returned) =>
        LET r == Unwrap(llm_ai.returned)
        IN  /\ (BridgeFailed(r) /\ r.kind = "SelectAction") => r.value = Some(WordEnd)
            /\ (BridgeFailed(r) /\ r.kind = "SelectPopupInput") => Len(r.value) = 0
            /\ r.kind = "SelectAction" => IsSome(r.value)

\* a select_action whose request reached the worker and whose service call
\* ended in an error has returned Some("end")
C29_Witness ==
    /\ IsSome(llm_ai.returned)
    /\ Unwrap(llm_ai.returned).kind = "SelectAction"
    /\ Unwrap(llm_ai.returned).by = "received"
    /\ ~Unwrap(Unwrap(llm_ai.returned).completion).ok
    /\ Unwrap(llm_ai.returned).value = Some(WordEnd)

\* C30: every call of select_action or select_popup_input returns: a call in
\* progress can always return, whatever the worker is doing (waiting on its
\* channel, busy with a request, gone), each further call can be made as soon
\* as the last has returned, and under the one assumption that recv_timeout
\* does return, every call that waits is followed by its return.
C30_EveryCallReturns ==
    /\ [](IsSome(llm_ai.call) => ENABLED Recv)
    /\ []((~IsSome(llm_ai.call) /\ llm_ai.calls < MaxCalls)
              => \A kind \in RequestKinds : ENABLED LlmAiCall(kind))
    /\ \A id \in 1..MaxCalls :
           (IsSome(llm_ai.call) /\ Unwrap(llm_ai.call).id = id)
               ~> (IsSome(llm_ai.returned) /\ Unwrap(llm_ai.returned).id = id)

\* a call has returned by the timeout while the worker was still busy with
\* an earlier request
C30_Witness ==
    /\ IsSome(llm_ai.returned)
    /\ Unwrap(llm_ai.returned).by = "timeout"
    /\ IsSome(llm_ai.serving)
    /\ Unwrap(llm_ai.serving).id < Unwrap(llm_ai.returned).id

\* C31: the worker handles the requests one at a time and in the order of
\* their submission: the k-th request it takes is the k-th that was sent, it
\* has answered (or tried to answer) every request it took before the one it
\* is serving, and this holds too for requests whose callers have returned.
C31_OneAtATimeInOrder ==
    /\ \A k \in DOMAIN llm_ai.started : llm_ai.started[k] = k
    /\ Len(llm_ai.done) <= Len(llm_ai.started)
    /\ llm_ai.done = SubSeq(llm_ai.started, 1, Len(llm_ai.done))
    /\ IsSome(llm_ai.serving)
           => /\ Len(llm_ai.started) = Len(llm_ai.done) + 1
              /\ Unwrap(llm_ai.serving).id = llm_ai.started[Len(llm_ai.started)]
    /\ llm_ai.worker = "receiving" => Len(llm_ai.started) = Len(llm_ai.done)
    /\ \A i \in DOMAIN llm_ai.rx : llm_ai.rx[i].id = Len(llm_ai.started) + i

\* the worker is serving the second request, whose caller has timed out and
\* is already waiting for the third
C31_Witness ==
    /\ IsSome(llm_ai.serving)
    /\ Unwrap(llm_ai.serving).id = 2
    /\ IsSome(llm_ai.call)
    /\ Unwrap(llm_ai.call).id = 3

\* C32: a value that a call receives from the worker is the answer to that
\* call's own request, computed for its kind from what the service answered
\* to it; an answer made after its call has returned reaches no later call.
C32_LateResponseDiscarded ==
    /\ IsSome(llm_ai.returned) /\ Unwrap(llm_ai.returned).by = "received"
           => LET r == Unwrap(llm_ai.returned)
              IN  /\ r.answer_to = r.id
                  /\ r.id \in {llm_ai.done[k] : k \in DOMAIN llm_ai.done}
                  /\ r.kind = "SelectAction"
                         => r.value = worker_out("SelectAction",
                                                 send_message(Unwrap(r.completion)))
    /\ IsSome(llm_ai.resp) => /\ IsSome(llm_ai.call)
                              /\ Unwrap(llm_ai.resp).id = Unwrap(llm_ai.call).id

\* the first call has timed out, the worker has answered its request since,
\* and the second call is waiting with nothing in its response channel
C32_Witness ==
    /\ IsSome(llm_ai.call)
    /\ Unwrap(llm_ai.call).id = 2
    /\ ~IsSome(llm_ai.resp)
    /\ llm_ai.done = <<1>>
    /\ IsSome(llm_ai.returned)
    /\ Unwrap(llm_ai.returned).id = 1
    /\ Unwrap(llm_ai.returned).by = "timeout"

\* C33: the request channel is bounded: the number of requests waiting in it
\* stays below a fixed capacity, here any capacity smaller than the number of
\* calls that are made.
C33_ChannelBounded == Len(llm_ai.rx) < MaxCalls

(***************************************************************************)
(* The agent loop over the bridge.                                         *)
(***************************************************************************)
\* C34: when a select_action of the agent loop has timed out, the step that
\* acts on its return ends the turn as the command "end" does: the active
\* player becomes the next civilization, the turn counter grows when the
\* round is complete, and the civilizations, the travels and the game-over
\* latch are what the turn-start hook of the new active civilization makes of
\* them, nothing else having changed.
C34_TimeoutEndsTurn ==
    [][(/\ IsSome(llm_ai.returned)
        /\ Unwrap(llm_ai.returned).kind = "SelectAction"
        /\ Unwrap(llm_ai.returned).by = "timeout"
        /\ ~IsSome(llm_ai'.returned))
       => LET next == (player_turn + 1) % Len(civilizations)
              g1 == [Game EXCEPT !.player_turn = next,
                                 !.turn = IF next = 0 THEN @ + 1 ELSE @]
              ts == on_turn_start(g1, next)
          IN  /\ player_turn' = next
              /\ turn' = g1.turn
              /\ civilizations' = ts.g.civilizations
              /\ travels' = ts.g.travels
              /\ game_over' = ts.g.game_over]_vars

\* the "end" put in place of an answer that did not come in time has ended
\* the turn of the agent, and the turn start of the player has resolved a
\* battle
C34_Witness ==
    /\ last.op = "agent_action"
    /\ last.by = "timeout"
    /\ last.ended
    /\ player_turn = 0
    /\ last.battles # <<>>

\* C39: the step that submits the empty input put in place of a popup input
\* that failed or did not come in time, to a popup that has choices, changes
\* no civilization (balance, buildings, units, queues) and no travel.
C39_EmptyInputIsSafe ==
    [][(/\ IsSome(llm_ai.returned)
        /\ Unwrap(llm_ai.returned).kind = "SelectPopupInput"
        /\ BridgeFailed(Unwrap(llm_ai.returned))
        /\ IsSome(popup)
        /\ Unwrap(popup).choices # <<>>
        /\ ~IsSome(llm_ai'.returned))
       => (civilizations' = civilizations /\ travels' = travels)]_vars

(***************************************************************************)
(* Acting when eliminated or after the end of the game.                    *)
(***************************************************************************)
\* C35: a command or a popup input that reaches start_construction,
\* start_recruitment or start_attack while the active civilization is not
\* alive, or once game_over is set, is refused: the call returns an error, a
\* popup is open after it, and no civilization and no travel has changed.
C35_DeadOrOverIsRefused ==
    [][(/\ ~civilizations[player_turn + 1].alive \/ game_over
        /\ last'.op \in {"apply_action", "submit_popup_input"}
        /\ last'.calls # <<>>)
       => (/\ last'.calls[1].result # "Ok"
           /\ IsSome(popup')
           /\ civilizations' = civilizations
           /\ travels' = travels)]_vars

(***************************************************************************)
(* The turn start.                                                         *)
(***************************************************************************)
\* the production amounts of the built buildings insts whose production is
\* of the resource type, as the 32 bits of the configuration
Yields(insts) ==
    [i \in DOMAIN insts |->
        IF \E b \in DOMAIN buildings :
              /\ buildings[b].name = insts[i].id_building
              /\ buildings[b].production.prod_type = "RESSOURCE"
        THEN buildings[FindBuilding(insts[i].id_building)].production.amount
        ELSE 0]

\* the sum of the amounts ys[i..]
RECURSIVE SumFrom(_, _)
SumFrom(ys, i) == IF i > Len(ys) THEN 0 ELSE ys[i] + SumFrom(ys, i + 1)

\* C36: the turn start of a civilization p (the step that ends the turn
\* before it) adds to p's balance the sum of the production amounts of the
\* resource buildings p had built before the step, whatever is queued or is
\* finished by the step itself, and leaves the balance, the buildings and the
\* queues of every other civilization as they were.  An amount with its top
\* bit set is 2^31 or more: the balance, an i32, cannot have grown by it.
C36_TurnStartIncome ==
    [][(last'.op = "apply_action" /\ last'.ended)
       => /\ \A k \in DOMAIN civilizations[player_turn' + 1].city.buildings :
                 Yields(civilizations[player_turn' + 1].city.buildings)[k] >= 0
          /\ civilizations'[player_turn' + 1].resources
                 = civilizations[player_turn' + 1].resources
                   + SumFrom(Yields(civilizations[player_turn' + 1].city.buildings), 1)
          /\ \A i \in DOMAIN civilizations :
                 i # player_turn' + 1
                     => /\ civilizations'[i].resources = civilizations[i].resources
                        /\ civilizations'[i].city.buildings = civilizations[i].city.buildings
                        /\ civilizations'[i].constructions = civilizations[i].constructions
                        /\ civilizations'[i].recruitments = civilizations[i].recruitments]_vars

\* a queue after one turn start: every timer lowered by one, the entries that
\* reach zero gone
OneLess(q) == [i \in DOMAIN q |-> [q[i] EXCEPT !.remaining = @ - 1]]
StillQueued(q) ==
    LET Waiting(e) == e.remaining > 0
    IN  SelectSeq(OneLess(q), Waiting)

\* the number of units the recruitments that finish at a turn start bring
RECURSIVE Recruited(_, _)
Recruited(q, i) ==
    IF i > Len(q) THEN 0
    ELSE (IF q[i].remaining = 1 THEN q[i].amount ELSE 0) + Recruited(q, i + 1)

\* the buildings the constructions that finish at a turn start become
Finished(q) ==
    LET Done(e) == e.remaining = 1
    IN  SelectSeq(q, Done)

\* C37: a queued construction or recruitment has a timer between 1 and its
\* build or production time; a step that starts the turn of its civilization
\* lowers the timer by one and, when the timer reaches zero, takes the entry
\* from the queue and adds its building to the city (its units to the
\* stacks); the turn start of another civilization, and every other step,
\* leaves the entry as it is.  An entry queued with time T is thus converted
\* in the T-th turn start of its civilization.
C37_QueueCountdown ==
    /\ [](\A i \in DOMAIN civilizations :
             /\ \A k \in DOMAIN civilizations[i].constructions :
                    /\ civilizations[i].constructions[k].remaining >= 1
                    /\ civilizations[i].constructions[k].remaining
                           <= civilizations[i].constructions[k].total
             /\ \A k \in DOMAIN civilizations[i].recruitments :
                    civilizations[i].recruitments[k].remaining >= 1)
    /\ [][\A i \in DOMAIN civilizations :
            LET old == civilizations[i]
                new == civilizations'[i]
            IN  IF last'.ended /\ i = player_turn' + 1
                THEN /\ new.constructions = StillQueued(old.constructions)
                     /\ new.recruitments = StillQueued(old.recruitments)
                     /\ Len(new.city.buildings)
                            = Len(old.city.buildings) + Len(Finished(old.constructions))
                     /\ \A k \in DOMAIN Finished(old.constructions) :
                            \E b \in DOMAIN new.city.buildings :
                                /\ b > Len(old.city.buildings)
                                /\ new.city.buildings[b].id_building
                                       = Finished(old.constructions)[k].id_building
                     /\ last'.battles = <<>>
                            => TotalUnits(new.city.units)
                                   = TotalUnits(old.city.units) + Recruited(old.recruitments, 1)
                ELSE /\ Len(new.constructions) >= Len(old.constructions)
                     /\ SubSeq(new.constructions, 1, Len(old.constructions))
                            = old.constructions
                     /\ Len(new.recruitments) >= Len(old.recruitments)
                     /\ SubSeq(new.recruitments, 1, Len(old.recruitments))
                            = old.recruitments
                     /\ Len(new.city.buildings) = Len(old.city.buildings)]_vars

\* Alpha, who started without one, has a Barracks, whose build time is two:
\* it was queued in Alpha's first turn and built at Alpha's second turn start
C37_Witness ==
    /\ last.ended
    /\ player_turn = 0
    /\ civilizations[1].constructions = <<>>
    /\ \E b \in DOMAIN civilizations[1].city.buildings :
           civilizations[1].city.buildings[b].id_building = "Barracks"

(***************************************************************************)
(* Arrivals and the end of the game.                                       *)
(***************************************************************************)
\* civilization i (1-based) was eliminated by one of the resolutions bs[1..k]
EliminatedBy(bs, k, i) ==
    \E j \in 1..k : bs[j].travel.defender = i - 1 /\ bs[j].outcome = "eliminated"

\* a resolution of bs fought at the city of civilization i (1-based)
FoughtAt(bs, i) ==
    \E j \in DOMAIN bs : bs[j].travel.defender = i - 1 /\ bs[j].outcome # "ignored"

\* C38: in a step that starts a turn, a travel that arrives when its attacker
\* or its defender is no longer alive (eliminated before the step or earlier
\* in it) is dropped without a battle; a civilization is alive after the step
\* iff it was alive before and no battle of the step eliminated it; the units
\* of a city at which no battle was fought are untouched; and when every
\* arrival was dropped the step opens no popup.
C38_DeadSidesDoNotFight ==
    [][last'.ended
       => LET bs == last'.battles
          IN  /\ \A k \in DOMAIN bs :
                     LET a == bs[k].travel.attacker + 1
                         d == bs[k].travel.defender + 1
                         a_alive == civilizations[a].alive /\ ~EliminatedBy(bs, k - 1, a)
                         d_alive == civilizations[d].alive /\ ~EliminatedBy(bs, k - 1, d)
                     IN  /\ (a_alive /\ d_alive) <=> bs[k].outcome # "ignored"
                         /\ bs[k].outcome = "ignored"
                                => bs[k].after = bs[k].before /\ bs[k].lost = 0
              /\ \A i \in DOMAIN civilizations :
                     /\ civilizations'[i].alive
                            = (civilizations[i].alive /\ ~EliminatedBy(bs, Len(bs), i))
                     /\ (~FoughtAt(bs, i) /\ i # player_turn' + 1)
                            => civilizations'[i].city.units = civilizations[i].city.units
                     /\ (~FoughtAt(bs, i) /\ i = player_turn' + 1)
                            => TotalUnits(civilizations'[i].city.units)
                                   = TotalUnits(civilizations[i].city.units)
                                     + Recruited(civilizations[i].recruitments, 1)
              /\ ((\A k \in DOMAIN bs : bs[k].outcome = "ignored") /\ game_over' = game_over)
                     => popup' = popup
              /\ \A k \in DOMAIN travels' : travels'[k].remaining >= 1]_vars

\* a turn start at which the army of a civilization arrived after that
\* civilization had been eliminated by an earlier arrival of the same call,
\* and was dropped
C38_Witness ==
    /\ last.ended
    /\ \E k \in DOMAIN last.battles :
           /\ last.battles[k].outcome = "ignored"
           /\ ~last.battles[k].attacker_alive
           /\ last.battles[k].defender_alive
           /\ k > 1
           /\ last.battles[k - 1].outcome = "eliminated"
           /\ last.battles[k - 1].travel.defender = last.battles[k].travel.attacker

\* the civilizations that are alive (1-based indices)
AliveSet == {i \in DOMAIN civilizations : civilizations[i].alive}

\* C40: some civilization is alive in every state; when the game is over
\* exactly one is; the step that ends the game opens the "Game Over" popup
\* with the name of that civilization as winner; and no "Game Over" popup
\* ever carries the "No winners" text.
C40_SomeoneSurvives ==
    /\ [](/\ AliveSet # {}
          /\ game_over => Cardinality(AliveSet) = 1
          /\ (popup # None /\ popup[1].title = "Game Over")
                 => /\ game_over
                    /\ popup[1].prompt.text = "Winner"
                    /\ \E i \in AliveSet :
                           popup[1].prompt.words = <<Chars(civilizations[i].city.name)>>)
    /\ [][(game_over' /\ ~game_over)
             => /\ popup' # None
                /\ popup'[1].title = "Game Over"
                /\ popup'[1].prompt.text = "Winner"]_vars

\* the game ended at a turn start at which the armies of the two cities
\* arrived together: the first one resolved eliminated a city, the other one
\* was the eliminated city's own army
C40_Witness ==
    /\ game_over
    /\ last.ended
    /\ Cardinality(AliveSet) = 1
    /\ popup # None
    /\ popup[1].title = "Game Over"
    /\ Len(last.battles) >= 2
    /\ \E j, k \in DOMAIN last.battles :
           /\ j < k
           /\ last.battles[j].outcome = "eliminated"
           /\ last.battles[k].travel.attacker = last.battles[j].travel.defender
           /\ last.battles[k].travel.defender = last.battles[j].travel.attacker

====
